---------------------------- MODULE Spec2Model ----------------------------
(***************************************************************************)
(* Presentation Exchange requirement resolution and disclosure engine      *)
(* (aries_cloudagent/protocols/present_proof/presentation_exchange/        *)
(* pres_exch_handler.py), modelled as state machines around its functions: *)
(* filter evaluation (validate_patch), cardinality (is_len_applicable),    *)
(* the requirement builder (make_requirement), the requirement evaluator   *)
(* (apply_requirements), the assembler (merge) and create_vp.              *)
(***************************************************************************)
EXTENDS Integers, Sequences, FiniteSets, TLC

VARIABLES
    phase,              \* position of the running operation
    pd,                 \* create_vp: the PresentationDefinition
    credentials,        \* the credentials given to the operation
    requirement,        \* create_vp: req, the Requirement built by make_requirement
    raised,             \* the exception raised, "" when none
    vp_result,          \* create_vp: result, the dict apply_requirements returns and merge takes
    applicable_creds,   \* merge: the credential list returned
    descriptor_maps,    \* merge: the InputDescriptorMappings returned
    vp,                 \* create_vp: the presentation
    fc_constraints,     \* filter_constraints: constraints
    fc_filtered,        \* filter_constraints: the credentials returned
    to_check,           \* validate_patch: the value extracted from a match
    _filter,            \* validate_patch: the Filter
    return_val,         \* validate_patch: the returned value
    len_req,            \* is_len_applicable: the Requirement (count, minimum, maximum)
    val,                \* is_len_applicable: the number to check
    len_ok,             \* is_len_applicable: the returned value
    fs_schemas,         \* filter_schema: schemas
    fs_result,          \* filter_schema: the credentials returned
    runs,               \* apply_requirements: the locals of each run in progress
    mn_nested_result,   \* merge_nested_results: nested_result
    mn_exclude,         \* merge_nested_results: exclude
    mn_result,          \* merge_nested_results: the dict returned
    fbf_field,          \* filter_by_field: field
    fbf_credential,     \* filter_by_field: credential
    fbf_result,         \* filter_by_field: the returned value
    cred_ex_stored,     \* V20CredManager: the V20CredExRecord of the exchange in storage
    issue_calls,        \* V20CredManager.issue_credential: the locals of each call
    request_call        \* V20CredManager.receive_request: the locals of the call

vars ==
    <<phase, pd, credentials, requirement, raised, vp_result, applicable_creds,
      descriptor_maps, vp, fc_constraints, fc_filtered, to_check, _filter, return_val,
      len_req, val, len_ok, fs_schemas, fs_result,
      runs, mn_nested_result, mn_exclude, mn_result,
      fbf_field, fbf_credential, fbf_result,
      cred_ex_stored, issue_calls, request_call>>

(***************************************************************************)
(* Python values.  Every value is a record of one shape, so that values of *)
(* different Python types can be compared: t is the type, n the number of  *)
(* an int, float or bool, s the characters of a str, l the items of a list.*)
(* Floats of the model are whole numbers (1.0, 2.0).                       *)
(***************************************************************************)
PyNone == [t |-> "none", n |-> 0, s |-> <<>>, l |-> <<>>]
PyInt(i) == [t |-> "int", n |-> i, s |-> <<>>, l |-> <<>>]
PyFloat(i) == [t |-> "float", n |-> i, s |-> <<>>, l |-> <<>>]
PyBool(b) == [t |-> "bool", n |-> IF b THEN 1 ELSE 0, s |-> <<>>, l |-> <<>>]
PyStr(chars) == [t |-> "str", n |-> 0, s |-> chars, l |-> <<>>]
PyList(items) == [t |-> "list", n |-> 0, s |-> <<>>, l |-> items]

IsNum(v) == v.t \in {"int", "float", "bool"}

\* bool(v): the truth value Python gives v in `if v:` and `not v`
Truthy(v) ==
    CASE v.t = "none" -> FALSE
      [] IsNum(v) -> v.n # 0
      [] v.t = "str" -> v.s # <<>>
      [] OTHER -> v.l # <<>>

\* v == w: numbers compare by value across int, float and bool
PyEq(v, w) ==
    IF IsNum(v) /\ IsNum(w) THEN v.n = w.n ELSE v = w

\* v in w, for a list w
PyIn(v, w) == \E i \in 1..Len(w.l) : PyEq(v, w.l[i])

Digits == <<"0", "1", "2", "3", "4", "5", "6", "7", "8", "9">>

RECURSIVE NatStr(_)
NatStr(i) == IF i < 10 THEN <<Digits[i + 1]>> ELSE NatStr(i \div 10) \o <<Digits[(i % 10) + 1]>>

IntStr(i) == IF i < 0 THEN <<"-">> \o NatStr(-i) ELSE NatStr(i)

\* str(v)
Str(v) ==
    CASE v.t = "str" -> v.s
      [] v.t = "int" -> IntStr(v.n)
      [] v.t = "float" -> IntStr(v.n) \o <<".", "0">>
      [] v.t = "bool" -> IF v.n = 1 THEN <<"T", "r", "u", "e">> ELSE <<"F", "a", "l", "s", "e">>
      [] v.t = "none" -> <<"N", "o", "n", "e">>
      [] OTHER -> <<"[", "]">>

DigitVal(c) == CHOOSE d \in 0..9 : Digits[d + 1] = c

IsDigit(c) == \E d \in 1..10 : Digits[d] = c

RECURSIVE DigitsVal(_)
DigitsVal(chars) ==
    IF chars = <<>> THEN 0
    ELSE 10 * DigitsVal(SubSeq(chars, 1, Len(chars) - 1)) + DigitVal(chars[Len(chars)])

(***************************************************************************)
(* The date parser (dateutil).  The dates of the model are written as      *)
(* digit strings, read as an instant; any other string fails with a        *)
(* ValueError and a value that is no string with a TypeError.  The result  *)
(* is [ok, at, err]: ok is FALSE when the parser raised, err is what it    *)
(* raised.                                                                 *)
(***************************************************************************)
dateutil_parser(v) ==
    IF v.t = "str" /\ v.s # <<>> /\ \A i \in 1..Len(v.s) : IsDigit(v.s[i])
    THEN [ok |-> TRUE, at |-> DigitsVal(v.s), err |-> ""]
    ELSE [ok |-> FALSE, at |-> 0, err |-> IF v.t = "str" THEN "ValueError" ELSE "TypeError"]

\* re.search(pattern, string) for a pattern without metacharacters: the
\* pattern occurs in the string
re_search(pattern, string) ==
    \E i \in 0..(Len(string) - Len(pattern)) :
        SubSeq(string, i + 1, i + Len(pattern)) = pattern

is_numeric(v) == v.t = "float" \/ v.t = "int" \/ v.t = "bool"


(***************************************************************************)
(* Filter: the typed leaf constraint of a field.  Every attribute is a     *)
(* Python value, PyNone when the attribute is absent.                      *)
(***************************************************************************)
TypeNumber == PyStr(<<"n", "u", "m", "b", "e", "r">>)
TypeString == PyStr(<<"s", "t", "r", "i", "n", "g">>)
FmtDate == PyStr(<<"d", "a", "t", "e">>)
FmtDateTime == PyStr(<<"d", "a", "t", "e", "-", "t", "i", "m", "e">>)

NoFilter ==
    [_type |-> PyNone, _not |-> PyNone, fmt |-> PyNone, pattern |-> PyNone,
     minimum |-> PyNone, maximum |-> PyNone, min_length |-> PyNone,
     max_length |-> PyNone, exclusive_min |-> PyNone, exclusive_max |-> PyNone,
     const |-> PyNone, enums |-> PyNone]

\* a > b and a >= b between Python values: [ok, lt, eq], ok FALSE when the
\* comparison raises TypeError (a number against a str, a list or None)
PyCmp(a, b) ==
    IF IsNum(a) /\ IsNum(b)
    THEN [ok |-> TRUE, lt |-> a.n < b.n, eq |-> a.n = b.n]
    ELSE [ok |-> FALSE, lt |-> FALSE, eq |-> FALSE]

\* The try body shared by the four range checks: `bound` is the filter's
\* attribute, `rel` says which comparison the check makes.  The result is
\* [exc, ret]: exc names the exception the body raised, "" when it returned.
RangeTry(v, f, bound, rel) ==
    LET holds(c) ==
            CASE rel = "gt" -> ~c.lt /\ ~c.eq
              [] rel = "lt" -> c.lt
              [] rel = "le" -> c.lt \/ c.eq
              [] OTHER -> ~c.lt
        returns(b) == [exc |-> "", ret |-> PyBool(b)]
        raises(e) == [exc |-> e, ret |-> PyNone]
    IN  IF Truthy(f.fmt)
        THEN IF f.fmt = FmtDate \/ f.fmt = FmtDateTime
             THEN LET to_compare_date == dateutil_parser(bound)
                      given_date == dateutil_parser(PyStr(Str(v)))
                  IN  IF ~to_compare_date.ok THEN raises(to_compare_date.err)
                      ELSE IF ~given_date.ok THEN raises(given_date.err)
                      ELSE returns(holds([ok |-> TRUE,
                                          lt |-> given_date.at < to_compare_date.at,
                                          eq |-> given_date.at = to_compare_date.at]))
             ELSE returns(FALSE)
        ELSE IF is_numeric(v)
             THEN LET c == PyCmp(v, bound)
                  IN  IF c.ok THEN returns(holds(c)) ELSE raises("TypeError")
             ELSE returns(FALSE)

\* except (TypeError, ValueError) as it would be catching ValueError only
RangeCaught_value_error_only == {"ValueError"}

\* except (TypeError, ValueError)
RangeCaught == {"TypeError", "ValueError"}

\* try: ... except (TypeError, ValueError): return False
RangeOutcome(v, f, bound, rel) ==
    LET body == RangeTry(v, f, bound, rel)
    IN  IF body.exc \in RangeCaught THEN [exc |-> "", ret |-> PyBool(FALSE)] ELSE body

\* what a range check returns to process_numeric_val and process_string_val
RangeCheck(v, f, bound, rel) == RangeOutcome(v, f, bound, rel).ret

exclusive_minimum_check(v, f) == RangeCheck(v, f, f.exclusive_min, "gt")

exclusive_maximum_check(v, f) == RangeCheck(v, f, f.exclusive_max, "lt")

maximum_check(v, f) == RangeCheck(v, f, f.maximum, "le")

minimum_check(v, f) == RangeCheck(v, f, f.minimum, "ge")

length_check(v, f) ==
    LET given_len == Len(Str(v))
    IN  IF Truthy(f.max_length) /\ Truthy(f.min_length)
        THEN PyBool(given_len <= f.max_length.n /\ given_len >= f.min_length.n)
        ELSE IF Truthy(f.max_length) /\ ~Truthy(f.min_length)
        THEN PyBool(given_len <= f.max_length.n)
        ELSE IF ~Truthy(f.max_length) /\ Truthy(f.min_length)
        THEN PyBool(given_len >= f.min_length.n)
        ELSE PyBool(FALSE)

pattern_check(v, f) ==
    IF Truthy(f.pattern) THEN PyBool(re_search(f.pattern.s, Str(v))) ELSE PyBool(FALSE)

const_check(v, f) == PyBool(PyEq(v, f.const))

enum_check(v, f) == PyBool(PyIn(v, f.enums))

process_numeric_val(v, f) ==
    IF Truthy(f.exclusive_max) THEN exclusive_maximum_check(v, f)
    ELSE IF Truthy(f.exclusive_min) THEN exclusive_minimum_check(v, f)
    ELSE IF Truthy(f.minimum) THEN minimum_check(v, f)
    ELSE IF Truthy(f.maximum) THEN maximum_check(v, f)
    ELSE IF Truthy(f.const) THEN const_check(v, f)
    ELSE IF Truthy(f.enums) THEN enum_check(v, f)
    ELSE PyBool(FALSE)

\* A branch of the elif chain that is entered and has no return (a range
\* bound without a format) ends the function: it returns None.
process_string_val(v, f) ==
    IF Truthy(f.min_length) \/ Truthy(f.max_length) THEN length_check(v, f)
    ELSE IF Truthy(f.pattern) THEN pattern_check(v, f)
    ELSE IF Truthy(f.enums) THEN enum_check(v, f)
    ELSE IF Truthy(f.exclusive_max)
         THEN IF Truthy(f.fmt) THEN exclusive_maximum_check(v, f) ELSE PyNone
    ELSE IF Truthy(f.exclusive_min)
         THEN IF Truthy(f.fmt) THEN exclusive_minimum_check(v, f) ELSE PyNone
    ELSE IF Truthy(f.minimum)
         THEN IF Truthy(f.fmt) THEN minimum_check(v, f) ELSE PyNone
    ELSE IF Truthy(f.maximum)
         THEN IF Truthy(f.fmt) THEN maximum_check(v, f) ELSE PyNone
    ELSE IF Truthy(f.const) THEN const_check(v, f)
    ELSE PyBool(FALSE)

\* validate_patch as it would be if `not` were applied on the typed path only
validate_patch_not_typed_only(v, f) ==
    LET typed == IF f._type = TypeNumber THEN process_numeric_val(v, f)
                 ELSE IF f._type = TypeString THEN process_string_val(v, f)
                 ELSE PyNone
        r == IF Truthy(f._type) THEN typed
             ELSE IF Truthy(f.const) THEN const_check(v, f)
             ELSE IF Truthy(f.enums) THEN enum_check(v, f)
             ELSE PyNone
    IN  IF Truthy(f._not) /\ Truthy(f._type) THEN PyBool(~Truthy(r)) ELSE r

validate_patch(v, f) ==
    LET typed == IF f._type = TypeNumber THEN process_numeric_val(v, f)
                 ELSE IF f._type = TypeString THEN process_string_val(v, f)
                 ELSE PyNone
        \* the two ifs of the untyped case both run: const, when set, overwrites enum
        r == IF Truthy(f._type) THEN typed
             ELSE IF Truthy(f.const) THEN const_check(v, f)
             ELSE IF Truthy(f.enums) THEN enum_check(v, f)
             ELSE PyNone
    IN  IF Truthy(f._not) THEN PyBool(~Truthy(r)) ELSE r


(***************************************************************************)
(* Requirement (count, minimum, maximum) and is_len_applicable.            *)
(***************************************************************************)
\* is_len_applicable as it would be with the minimum test made strict
is_len_applicable_strict_min(req, v) ==
    IF Truthy(req.count) /\ req.count.n > 0 /\ v # req.count.n THEN FALSE
    ELSE IF Truthy(req.minimum) /\ req.minimum.n > 0 /\ req.minimum.n >= v THEN FALSE
    ELSE IF Truthy(req.maximum) /\ req.maximum.n > 0 /\ req.maximum.n < v THEN FALSE
    ELSE TRUE

\* is_len_applicable as it would be with the maximum test made strict
is_len_applicable_strict_max(req, v) ==
    IF Truthy(req.count) /\ req.count.n > 0 /\ v # req.count.n THEN FALSE
    ELSE IF Truthy(req.minimum) /\ req.minimum.n > 0 /\ req.minimum.n > v THEN FALSE
    ELSE IF Truthy(req.maximum) /\ req.maximum.n > 0 /\ req.maximum.n <= v THEN FALSE
    ELSE TRUE

is_len_applicable(req, v) ==
    IF Truthy(req.count) /\ req.count.n > 0 /\ v # req.count.n THEN FALSE
    ELSE IF Truthy(req.minimum) /\ req.minimum.n > 0 /\ req.minimum.n > v THEN FALSE
    ELSE IF Truthy(req.maximum) /\ req.maximum.n > 0 /\ req.maximum.n < v THEN FALSE
    ELSE TRUE

(***************************************************************************)
(* Credentials (VCRecord).  given_id is a string of characters; cred_value *)
(* is the JSON-LD document: the expanded @type values, the shape of its    *)
(* credentialSubject and, for every JSONPath expression of the model, the  *)
(* matches jsonpath.find yields: a sequence of [full_path, value], with    *)
(* full_path the sequence of keys down to the matched property.  reveal is *)
(* the reveal document the credential was derived with, NoReveal for a     *)
(* credential of the holder's store.                                       *)
(***************************************************************************)
NoReveal == [explicit |-> FALSE, base |-> {}, unflatten |-> {}, credentialSubject |-> "absent"]

\* jsonpath.find(credential_dict) for parse(path)
Find(path, credential) == credential.cred_value.matches[path]

RECURSIVE SeqToSet(_)
SeqToSet(sq) == IF sq = <<>> THEN {} ELSE {Head(sq)} \cup SeqToSet(Tail(sq))

filter_by_field(field, credential) ==
    \E i \in 1..Len(field.paths) :
        \E j \in 1..Len(Find(field.paths[i], credential)) :
            Truthy(validate_patch(Find(field.paths[i], credential)[j].value, field._filter))

\* filter_by_field for a field that may have no filter: [exc, ret], exc the
\* exception that leaves it.  A field without filter has _filter None, and
\* validate_patch reads _filter._type of what it is given (line 356): the
\* first match of such a field raises AttributeError.
FilterByFieldOutcome(field, credential) ==
    LET matched == \E i \in 1..Len(field.paths) : Len(Find(field.paths[i], credential)) # 0
    IN  IF field._filter = PyNone
        THEN [exc |-> IF matched THEN "AttributeError" ELSE "", ret |-> FALSE]
        ELSE [exc |-> "", ret |-> filter_by_field(field, credential)]

subject_is_issuer(credential) ==
    \E subject_id \in credential.subject_ids :
        subject_id # "" /\ subject_id = credential.issuer_id

credential_match_schema(credential, schema_id) ==
    \/ \E cred_schema_id \in credential.schema_ids : cred_schema_id = schema_id
    \/ \E cred_type \in credential.cred_value.types : cred_type = schema_id

\* the inner loop of filter_schema from schema i on: the value of
\* `applicable` when the loop ends or breaks
RECURSIVE SchemaLoop(_, _, _)
SchemaLoop(credential, schemas, i) ==
    IF i > Len(schemas) THEN FALSE
    ELSE LET applicable == credential_match_schema(credential, schemas[i].uri)
         IN  IF schemas[i].required /\ ~applicable THEN FALSE
             ELSE IF applicable THEN TRUE
             ELSE SchemaLoop(credential, schemas, i + 1)

filter_schema(creds, schemas) ==
    SelectSeq(creds, LAMBDA credential : SchemaLoop(credential, schemas, 1))

\* The keys of unflatten_dict: for every field and every path with a match,
\* the full path of each match and `<ancestor>.@explicit` for each of its
\* ancestors.
UnflattenKeys(constraints, credential) ==
    UNION {UNION {UNION {{m.full_path} \cup
                          {SubSeq(m.full_path, 1, k) \o <<"@explicit">> :
                              k \in 1..(Len(m.full_path) - 1)} :
                      m \in SeqToSet(Find(pth, credential))} :
                  pth \in SeqToSet(fld.paths)} :
           fld \in SeqToSet(constraints._fields)}

\* new_credential_dict, the reveal document given to derive_credential
RevealDocument(constraints, credential) ==
    LET keys == UnflattenKeys(constraints, credential)
    IN  [explicit |-> TRUE,
         base |-> {"@context", "type", "id", "issuanceDate"},
         unflatten |-> keys,
         credentialSubject |->
            IF \E k \in keys : k[1] = "credentialSubject" THEN "revealed"
            ELSE IF credential.cred_value.subject_shape = "list" THEN "empty_list"
            ELSE IF credential.cred_value.subject_shape = "dict" THEN "empty_dict"
            ELSE "absent"]

\* derive_credential followed by VCRecord.deserialize_jsonld_cred: the
\* derived credential keeps the statements the reveal document names
derive_credential(credential, reveal_document) ==
    [credential EXCEPT
        !.reveal = reveal_document,
        !.cred_value.matches =
            [pth \in DOMAIN credential.cred_value.matches |->
                SelectSeq(credential.cred_value.matches[pth],
                          LAMBDA m : m.full_path \in reveal_document.unflatten)]]

\* the loop over the credentials as it would be if every field had to match
ConstrainOne_every_field(constraints, credential) ==
    IF constraints.subject_issuer = "required" /\ ~subject_is_issuer(credential)
    THEN <<>>
    ELSE IF ~ \A i \in 1..Len(constraints._fields) :
                filter_by_field(constraints._fields[i], credential)
    THEN <<>>
    ELSE IF constraints.limit_disclosure # ""
    THEN <<derive_credential(credential, RevealDocument(constraints, credential))>>
    ELSE <<credential>>

\* one pass of filter_constraints' loop over the credentials: <<>> when the
\* credential is skipped, else the credential appended to result
ConstrainOne(constraints, credential) ==
    IF constraints.subject_issuer = "required" /\ ~subject_is_issuer(credential)
    THEN <<>>
    ELSE IF ~ \E i \in 1..Len(constraints._fields) :
                filter_by_field(constraints._fields[i], credential)
    THEN <<>>
    ELSE IF constraints.limit_disclosure # ""
    THEN <<derive_credential(credential, RevealDocument(constraints, credential))>>
    ELSE <<credential>>

RECURSIVE filter_constraints(_, _)
filter_constraints(constraints, creds) ==
    IF creds = <<>> THEN <<>>
    ELSE ConstrainOne(constraints, Head(creds)) \o filter_constraints(constraints, Tail(creds))

(***************************************************************************)
(* The requirement builder.  A SubmissionRequirements sr has rule, count,  *)
(* minimum, maximum and either _from (a group name, "" when absent) or     *)
(* from_nested.  The builder returns [error, req]: error is "" on success  *)
(* and the name of the raised exception otherwise.                         *)
(***************************************************************************)
\* Requirement(): the attributes a Requirement has when the constructor is
\* given none (no bound, no descriptor, no nested requirement)
NullRequirement ==
    [count |-> PyNone, minimum |-> PyNone, maximum |-> PyNone,
     input_descriptors |-> <<>>, nested_req |-> <<>>]

\* Requirement(count=.., maximum=.., minimum=.., input_descriptors=.., nested_req=..)
Requirement(count, maximum, minimum, input_descriptors, nested_req) ==
    [NullRequirement EXCEPT !.count = count, !.minimum = minimum, !.maximum = maximum,
                            !.input_descriptors = input_descriptors, !.nested_req = nested_req]

contains(data, e) == \E k \in 1..Len(data) : e = data[k]

RECURSIVE to_requirement(_, _)
to_requirement(sr, descriptors) ==
    IF sr._from # ""
    THEN LET input_descriptors ==
                 SelectSeq(descriptors, LAMBDA descriptor : contains(descriptor.groups, sr._from))
             total_count == Len(input_descriptors)
         IN  IF total_count = 0
             THEN [error |-> "PresentationExchError", req |-> NullRequirement]
             ELSE [error |-> "",
                   req |-> Requirement(IF sr.rule = "all" THEN PyInt(total_count) ELSE sr.count,
                                       sr.maximum, sr.minimum, input_descriptors, <<>>)]
    ELSE LET built == [k \in 1..Len(sr.from_nested) |->
                          to_requirement(sr.from_nested[k], descriptors)]
             nested == [k \in 1..Len(sr.from_nested) |-> built[k].req]
             total_count == Len(nested)
         IN  IF \E k \in 1..Len(built) : built[k].error # ""
             THEN [error |-> "PresentationExchError", req |-> NullRequirement]
             ELSE [error |-> "",
                   req |-> Requirement(IF sr.rule = "all" THEN PyInt(total_count) ELSE sr.count,
                                       sr.maximum, sr.minimum, <<>>, nested)]

\* make_requirement as it would be if the errors of to_requirement were
\* swallowed and the failed requirement kept as an empty one
make_requirement_keep_empty(srs, descriptors) ==
    IF Len(srs) = 0
    THEN [error |-> "",
          req |-> [NullRequirement EXCEPT !.count = PyInt(Len(descriptors)),
                                          !.input_descriptors = descriptors]]
    ELSE LET built == [k \in 1..Len(srs) |-> to_requirement(srs[k], descriptors)]
         IN  [error |-> "",
              req |-> [NullRequirement EXCEPT !.count = PyInt(Len(srs)),
                                              !.nested_req = [k \in 1..Len(srs) |-> built[k].req]]]

\* make_requirement as it would be if the leaf built without submission
\* requirements carried no count
make_requirement_no_count(srs, descriptors) ==
    IF Len(srs) = 0
    THEN [error |-> "", req |-> [NullRequirement EXCEPT !.input_descriptors = descriptors]]
    ELSE LET built == [k \in 1..Len(srs) |-> to_requirement(srs[k], descriptors)]
         IN  IF \E k \in 1..Len(built) : built[k].error # ""
             THEN [error |-> "PresentationExchError", req |-> NullRequirement]
             ELSE [error |-> "",
                   req |-> [NullRequirement EXCEPT !.count = PyInt(Len(srs)),
                                                   !.nested_req = [k \in 1..Len(srs) |-> built[k].req]]]

\* make_requirement as it would be if each built requirement were inserted
\* at the front of nested_req
make_requirement_prepend(srs, descriptors) ==
    IF Len(srs) = 0
    THEN [error |-> "",
          req |-> [NullRequirement EXCEPT !.count = PyInt(Len(descriptors)),
                                          !.input_descriptors = descriptors]]
    ELSE LET built == [k \in 1..Len(srs) |-> to_requirement(srs[k], descriptors)]
         IN  IF \E k \in 1..Len(built) : built[k].error # ""
             THEN [error |-> "PresentationExchError", req |-> NullRequirement]
             ELSE [error |-> "",
                   req |-> [NullRequirement EXCEPT
                               !.count = PyInt(Len(srs)),
                               !.nested_req = [k \in 1..Len(srs) |-> built[Len(srs) + 1 - k].req]]]

make_requirement(srs, descriptors) ==
    IF Len(srs) = 0
    THEN [error |-> "",
          req |-> [NullRequirement EXCEPT !.count = PyInt(Len(descriptors)),
                                          !.input_descriptors = descriptors]]
    ELSE LET built == [k \in 1..Len(srs) |-> to_requirement(srs[k], descriptors)]
         IN  IF \E k \in 1..Len(built) : built[k].error # ""
             THEN [error |-> "PresentationExchError", req |-> NullRequirement]
             ELSE [error |-> "",
                   req |-> [NullRequirement EXCEPT !.count = PyInt(Len(srs)),
                                                   !.nested_req = [k \in 1..Len(srs) |-> built[k].req]]]

(***************************************************************************)
(* Dicts keep their keys in insertion order: a dict is a sequence of       *)
(* [key, val] with distinct keys.                                          *)
(***************************************************************************)
DictKeys(d) == [k \in 1..Len(d) |-> d[k].key]

DictHas(d, key) == \E k \in 1..Len(d) : d[k].key = key

DictGet(d, key) == d[CHOOSE k \in 1..Len(d) : d[k].key = key].val

\* d[key] = v
DictPut(d, key, v) ==
    IF DictHas(d, key)
    THEN [k \in 1..Len(d) |-> IF d[k].key = key THEN [key |-> key, val |-> v] ELSE d[k]]
    ELSE Append(d, [key |-> key, val |-> v])

(***************************************************************************)
(* The requirement evaluator.                                              *)
(***************************************************************************)
\* the loop of merge_nested_results over `credentials`: the credentials
\* whose given_id is new and whose key + given_id is not excluded are
\* appended to merged
RECURSIVE MergeCredentials(_, _, _, _)
MergeCredentials(merged, creds, key, exclude) ==
    IF creds = <<>> THEN merged
    ELSE LET credential == Head(creds)
             seen == \E k \in 1..Len(merged) : merged[k].given_id = credential.given_id
         IN  IF ~seen /\ (key \o credential.given_id) \notin exclude
             THEN MergeCredentials(Append(merged, credential), Tail(creds), key, exclude)
             ELSE MergeCredentials(merged, Tail(creds), key, exclude)

\* the loop over the keys as it would be if result[key] were replaced
\* without taking over the credentials merged before
RECURSIVE MergeKeys_overwrite(_, _, _)
MergeKeys_overwrite(result, res, exclude) ==
    IF res = <<>> THEN result
    ELSE LET key == Head(res).key
             merged_credentials == MergeCredentials(<<>>, Head(res).val, key, exclude)
         IN  MergeKeys_overwrite(DictPut(result, key, merged_credentials), Tail(res), exclude)

\* the loop over the keys as it would be if every list were merged into the
\* first key of result
RECURSIVE MergeKeys_pooled(_, _, _)
MergeKeys_pooled(result, res, exclude) ==
    IF res = <<>> THEN result
    ELSE LET key == Head(res).key
             target == IF result = <<>> THEN key ELSE result[1].key
             kept == IF DictHas(result, target)
                     THEN MergeCredentials(<<>>, DictGet(result, target), target, {})
                     ELSE <<>>
             merged_credentials == MergeCredentials(kept, Head(res).val, key, exclude)
         IN  MergeKeys_pooled(DictPut(result, target, merged_credentials), Tail(res), exclude)

\* the loop over the keys of one nested result
RECURSIVE MergeKeys(_, _, _)
MergeKeys(result, res, exclude) ==
    IF res = <<>> THEN result
    ELSE LET key == Head(res).key
             kept == IF DictHas(result, key)
                     THEN MergeCredentials(<<>>, DictGet(result, key), key, {})
                     ELSE <<>>
             merged_credentials == MergeCredentials(kept, Head(res).val, key, exclude)
         IN  MergeKeys(DictPut(result, key, merged_credentials), Tail(res), exclude)

RECURSIVE MergeResults(_, _, _)
MergeResults(result, nested_result, exclude) ==
    IF nested_result = <<>> THEN result
    ELSE MergeResults(MergeKeys(result, Head(nested_result), exclude),
                      Tail(nested_result), exclude)

merge_nested_results(nested_result, exclude) == MergeResults(<<>>, nested_result, exclude)

\* the loop of apply_requirements over the descriptors of a leaf
\* the loop over the descriptors as it would be if a descriptor without
\* credentials were entered into result as well
RECURSIVE ApplyDescriptors_keep_empty(_, _, _)
ApplyDescriptors_keep_empty(result, descriptor_list, creds) ==
    IF descriptor_list = <<>> THEN result
    ELSE LET descriptor == Head(descriptor_list)
             filtered_by_schema == filter_schema(creds, descriptor.schemas)
             filtered == filter_constraints(descriptor.constraint, filtered_by_schema)
         IN  ApplyDescriptors_keep_empty(DictPut(result, descriptor._id, filtered),
                                         Tail(descriptor_list), creds)

RECURSIVE ApplyDescriptors(_, _, _)
ApplyDescriptors(result, descriptor_list, creds) ==
    IF descriptor_list = <<>> THEN result
    ELSE LET descriptor == Head(descriptor_list)
             filtered_by_schema == filter_schema(creds, descriptor.schemas)
             filtered == filter_constraints(descriptor.constraint, filtered_by_schema)
         IN  ApplyDescriptors(IF Len(filtered) # 0
                              THEN DictPut(result, descriptor._id, filtered)
                              ELSE result,
                              Tail(descriptor_list), creds)

\* given_id_descriptors: for a given_id, the descriptor ids it is listed
\* under in the nested results
GivenIdDescriptors(nested_result, given_id) ==
    {e.key : e \in {x \in UNION {SeqToSet(res) : res \in SeqToSet(nested_result)} :
                       \E k \in 1..Len(x.val) : x.val[k].given_id = given_id}}

GivenIds(nested_result) ==
    UNION {UNION {{c.given_id : c \in SeqToSet(e.val)} : e \in SeqToSet(res)} :
              res \in SeqToSet(nested_result)}

\* the exclude dict as it would be with its keys built given_id first
Exclude_given_id_first(req, nested_result) ==
    UNION {{given_id \o descriptor_id :
               descriptor_id \in GivenIdDescriptors(nested_result, given_id)} :
           given_id \in {g \in GivenIds(nested_result) :
                            ~is_len_applicable(req, Cardinality(GivenIdDescriptors(nested_result, g)))}}

\* the exclude dict, as the set of its keys descriptor_id + given_id
Exclude(req, nested_result) ==
    UNION {{descriptor_id \o given_id :
               descriptor_id \in GivenIdDescriptors(nested_result, given_id)} :
           given_id \in {g \in GivenIds(nested_result) :
                            ~is_len_applicable(req, Cardinality(GivenIdDescriptors(nested_result, g)))}}

RECURSIVE apply_requirements(_, _)
apply_requirements(req, creds) ==
    IF Len(req.input_descriptors) # 0
    THEN LET result == ApplyDescriptors(<<>>, req.input_descriptors, creds)
         IN  IF is_len_applicable(req, Len(result)) THEN result ELSE <<>>
    ELSE LET results == [k \in 1..Len(req.nested_req) |->
                            apply_requirements(req.nested_req[k], creds)]
             nested_result == SelectSeq(results, LAMBDA r : r # <<>>)
         IN  merge_nested_results(nested_result, Exclude(req, nested_result))

\* The order in which `for credential in credentials` visits the snapshot
\* as it would be for an unordered collection: any order
CredentialOrders_any(creds) ==
    {p \in [1..Len(creds) -> SeqToSet(creds)] :
        \A c \in SeqToSet(creds) : \E k \in 1..Len(creds) : p[k] = c}

\* The order in which `for credential in credentials` visits the snapshot:
\* credentials is a Sequence, visited in its own order
CredentialOrders(creds) == {creds}

(***************************************************************************)
(* apply_requirements step by step.  Every await of its body ends a step:  *)
(* one pass of the loop over the descriptors (filter_schema and            *)
(* filter_constraints are awaited), one pass of the loop over the nested   *)
(* requirements (the recursive call is awaited), and the return.  A frame  *)
(* holds the locals of one call: pc, the loop index i, result,             *)
(* nested_result and, once returned, the value returned.                   *)
(***************************************************************************)
Runs == {1, 2}

Frame(req) ==
    [pc |-> IF Len(req.input_descriptors) # 0 THEN "descriptors" ELSE "nested",
     i |-> 1, result |-> <<>>, nested_result |-> <<>>, ret |-> <<>>]

\* lines 733-746 for descriptor i
DescriptorPass(frame, req, creds) ==
    [frame EXCEPT !.result = ApplyDescriptors(frame.result, <<req.input_descriptors[frame.i]>>, creds),
                  !.i = frame.i + 1]

\* lines 760-777 for nested requirement i, result being what the
\* recursive call of line 759 returned
NestedPass(frame, result) ==
    [frame EXCEPT !.nested_result = IF result = <<>> THEN frame.nested_result
                                    ELSE Append(frame.nested_result, result),
                  !.i = frame.i + 1]

\* lines 748-752 and 779-789
ReturnPass(frame, req) ==
    [frame EXCEPT !.pc = "returned",
                  !.ret = IF frame.pc = "descriptors"
                          THEN IF is_len_applicable(req, Len(frame.result))
                               THEN frame.result ELSE <<>>
                          ELSE merge_nested_results(frame.nested_result,
                                                    Exclude(req, frame.nested_result))]

(***************************************************************************)
(* The presentation assembler.                                             *)
(***************************************************************************)
\* a < b for strings of digit characters, as Python compares str
RECURSIVE StrLess(_, _)
StrLess(a, b) ==
    IF b = <<>> THEN FALSE
    ELSE IF a = <<>> THEN TRUE
    ELSE IF Head(a) # Head(b) THEN DigitVal(Head(a)) < DigitVal(Head(b))
    ELSE StrLess(Tail(a), Tail(b))

\* sorted(list(keys)) for distinct keys
RECURSIVE SortedKeys(_)
SortedKeys(keys) ==
    IF keys = {} THEN <<>>
    ELSE LET least == CHOOSE k \in keys : \A o \in keys \ {k} : StrLess(k, o)
         IN  <<least>> \o SortedKeys(keys \ {least})

\* sorted(descriptors, key=lambda i: i._id): a stable sort
RECURSIVE SortedById(_)
SortedById(descriptors) ==
    IF descriptors = <<>> THEN <<>>
    ELSE LET rest == SortedById(Tail(descriptors))
             before == SelectSeq(rest, LAMBDA d : StrLess(d._id, Head(descriptors)._id))
             after == SelectSeq(rest, LAMBDA d : ~StrLess(d._id, Head(descriptors)._id))
         IN  before \o <<Head(descriptors)>> \o after

\* InputDescriptorMapping(_id, fmt, path): path is
\* $.verifiableCredential[<index>], kept as its index
InputDescriptorMapping(desc_id, index) ==
    [_id |-> desc_id, fmt |-> "ldp_vp", path |-> index]

\* The loop over the credentials of one descriptor.  st holds result,
\* descriptors and dict_of_creds (given_id -> recorded index, as a dict).
\* dict_of_descriptors is never written, so its test always passes and a
\* mapping is appended for every credential.
RECURSIVE MergeDescriptor(_, _, _)
MergeDescriptor(st, desc_id, creds) ==
    IF creds = <<>> THEN st
    ELSE LET credential == Head(creds)
             fresh == ~DictHas(st.dict_of_creds, credential.given_id)
             dict_of_creds == IF fresh
                              THEN DictPut(st.dict_of_creds, credential.given_id,
                                           Len(st.descriptors))
                              ELSE st.dict_of_creds
             descriptor_map == InputDescriptorMapping(
                                   desc_id, DictGet(dict_of_creds, credential.given_id))
         IN  MergeDescriptor(
                 [result |-> IF fresh THEN Append(st.result, credential) ELSE st.result,
                  descriptors |-> Append(st.descriptors, descriptor_map),
                  dict_of_creds |-> dict_of_creds],
                 desc_id, Tail(creds))

RECURSIVE MergeSorted(_, _, _)
MergeSorted(st, sorted_desc_keys, dict_descriptor_creds) ==
    IF sorted_desc_keys = <<>> THEN st
    ELSE MergeSorted(MergeDescriptor(st, Head(sorted_desc_keys),
                                     DictGet(dict_descriptor_creds, Head(sorted_desc_keys))),
                     Tail(sorted_desc_keys), dict_descriptor_creds)

\* merge as it would be without the test on dict_of_creds: every listed
\* credential is appended to result
merge_no_dedup(dict_descriptor_creds) ==
    LET sorted_desc_keys == SortedKeys(SeqToSet(DictKeys(dict_descriptor_creds)))
        all == [k \in 1..Len(sorted_desc_keys) |->
                   DictGet(dict_descriptor_creds, sorted_desc_keys[k])]
        RECURSIVE Flat(_)
        Flat(ls) == IF ls = <<>> THEN <<>> ELSE Head(ls) \o Flat(Tail(ls))
        st == MergeSorted([result |-> <<>>, descriptors |-> <<>>, dict_of_creds |-> <<>>],
                          sorted_desc_keys, dict_descriptor_creds)
    IN  [result |-> Flat(all), descriptors |-> SortedById(st.descriptors)]

\* merge as it would be if a mapping were also made for a descriptor whose
\* list is empty
merge_map_every_key(dict_descriptor_creds) ==
    LET sorted_desc_keys == SortedKeys(SeqToSet(DictKeys(dict_descriptor_creds)))
        st == MergeSorted([result |-> <<>>, descriptors |-> <<>>, dict_of_creds |-> <<>>],
                          sorted_desc_keys, dict_descriptor_creds)
        empties == SelectSeq(sorted_desc_keys,
                             LAMBDA k : DictGet(dict_descriptor_creds, k) = <<>>)
    IN  [result |-> st.result,
         descriptors |-> SortedById(st.descriptors \o
                            [k \in 1..Len(empties) |-> InputDescriptorMapping(empties[k], 0)])]

\* merge as it would be visiting the keys in the dict's own order
merge_insertion_order(dict_descriptor_creds) ==
    LET st == MergeSorted([result |-> <<>>, descriptors |-> <<>>, dict_of_creds |-> <<>>],
                          DictKeys(dict_descriptor_creds), dict_descriptor_creds)
    IN  [result |-> st.result, descriptors |-> SortedById(st.descriptors)]

\* merge: [result, descriptors], the tuple it returns
merge(dict_descriptor_creds) ==
    LET sorted_desc_keys == SortedKeys(SeqToSet(DictKeys(dict_descriptor_creds)))
        st == MergeSorted([result |-> <<>>, descriptors |-> <<>>, dict_of_creds |-> <<>>],
                          sorted_desc_keys, dict_descriptor_creds)
    IN  [result |-> st.result, descriptors |-> SortedById(st.descriptors)]

(***************************************************************************)
(* The credential exchange manager (issue_credential/v2_0/manager.py).     *)
(* A V20CredExRecord is [state, cred_request, cred_issue]: cred_request    *)
(* tells whether a request is recorded, cred_issue is 0 for None and else  *)
(* the number of the call that made the message.  NoRecord stands for an   *)
(* exchange without record in storage.  A call works on its own            *)
(* V20CredExRecord object: what its caller retrieved from storage.         *)
(***************************************************************************)
STATE_OFFER_SENT == "offer-sent"
STATE_REQUEST_RECEIVED == "request-received"
STATE_ISSUED == "issued"

NoRecord == [state |-> "no record", cred_request |-> FALSE, cred_issue |-> 0]

\* V20CredExRecord(...) as receive_request makes it for a request free of
\* any offer
V20CredExRecord == [state |-> "", cred_request |-> FALSE, cred_issue |-> 0]

\* the locals of a call that has not begun
IdleCall == [pc |-> "idle", cred_ex_record |-> NoRecord]

\* lines 416-427: the error issue_credential raises for cred_ex_record, ""
\* when it goes on
IssueGuard(cred_ex_record) ==
    IF cred_ex_record.state # STATE_REQUEST_RECEIVED THEN "V20CredManagerError"
    ELSE IF cred_ex_record.cred_issue # 0 THEN "V20CredManagerError"
    ELSE ""

\* lines 456-457, for the message made by call c
IssueUpdate(cred_ex_record, c) ==
    [cred_ex_record EXCEPT !.state = STATE_ISSUED, !.cred_issue = c]

\* lines 391-392
RequestUpdate(cred_ex_record) ==
    [cred_ex_record EXCEPT !.cred_request = TRUE, !.state = STATE_REQUEST_RECEIVED]

(***************************************************************************)
(* Bounds and input sets.                                                  *)
(***************************************************************************)
MaxCount == 3
MaxVal == 4
MaxNum == 2

CountValues == {PyNone} \cup {PyInt(i) : i \in (-1)..MaxCount}

LenRequirements ==
    {[count |-> c, minimum |-> mn, maximum |-> mx, input_descriptors |-> <<>>,
      nested_req |-> <<>>] : c \in CountValues, mn \in CountValues, mx \in CountValues}

StrA == PyStr(<<"a">>)
StrAB == PyStr(<<"a", "b">>)
StrABC == PyStr(<<"a", "b", "c">>)
StrDate1 == PyStr(<<"1">>)
StrDate2 == PyStr(<<"2">>)

\* the values a path may yield in a credential
Values ==
    {PyNone, PyBool(TRUE), PyFloat(1), StrA, StrAB, StrABC, StrDate1, StrDate2}
        \cup {PyInt(i) : i \in 0..MaxNum}

ConstraintNames ==
    {"pattern", "minimum", "maximum", "min_length", "max_length", "exclusive_min",
     "exclusive_max", "const", "enums"}

ConstraintValues(c) ==
    CASE c = "pattern" -> {PyNone, StrA}
      [] c \in {"min_length", "max_length"} -> {PyNone, PyInt(2)}
      [] c \in {"minimum", "maximum", "exclusive_min", "exclusive_max"} ->
            {PyNone, PyInt(0), PyInt(1), StrDate1}
      [] c = "const" -> {PyNone, PyInt(0), PyInt(1), StrA}
      [] OTHER -> {PyNone, PyList(<<PyInt(1), StrAB>>)}

(***************************************************************************)
(* The credentials of the holder's store.  Credential k has given_id the   *)
(* digit k, the number k under $.a and a string under                      *)
(* $.credentialSubject.b; $.vc.a matches nothing.  Credential 1 is its own *)
(* issuer's subject, credential 2 names a schema, the odd ones are         *)
(* passports.                                                              *)
(***************************************************************************)
MaxCreds == 3
MaxLen == 2

Paths == {"$.a", "$.vc.a", "$.credentialSubject.b"}

CredOf(k) ==
    [given_id |-> <<Digits[k + 1]>>,
     issuer_id |-> "did:issuer",
     subject_ids |-> IF k = 1 THEN {"did:issuer"} ELSE {"did:subject", ""},
     schema_ids |-> IF k = 2 THEN {"schema:licence"} ELSE {},
     cred_value |->
        [types |-> {"VerifiableCredential"} \cup (IF k % 2 = 1 THEN {"Passport"} ELSE {}),
         subject_shape |-> IF k % 2 = 1 THEN "dict" ELSE "list",
         matches |->
            [pth \in Paths |->
                CASE pth = "$.a" -> <<[full_path |-> <<"a">>, value |-> PyInt(k)]>>
                  [] pth = "$.credentialSubject.b" ->
                        <<[full_path |-> <<"credentialSubject", "b">>,
                           value |-> IF k = 1 THEN StrA ELSE IF k = 2 THEN StrAB ELSE StrABC]>>
                  [] OTHER -> <<>>]],
     reveal |-> NoReveal]

Store == [k \in 1..MaxCreds |-> CredOf(k)]

\* the credential snapshots handed to an evaluation: the first n of the store
Pools == {SubSeq(Store, 1, n) : n \in 0..MaxCreds}

RECURSIVE SeqsUpTo(_, _)
SeqsUpTo(S, n) ==
    IF n = 0 THEN {<<>>}
    ELSE LET shorter == SeqsUpTo(S, n - 1)
         IN  shorter \cup {Append(sq, x) : sq \in shorter, x \in S}

(***************************************************************************)
(* Fields, constraints and input descriptors.                              *)
(***************************************************************************)
Field(paths, f) == [paths |-> paths, _filter |-> f, predicate |-> ""]

\* $.a (or $.vc.a) at most 2: credentials 1 and 2
FieldLow == Field(<<"$.vc.a", "$.a">>, [NoFilter EXCEPT !._type = TypeNumber, !.maximum = PyInt(2)])
\* $.a one of 1, 3: credentials 1 and 3
FieldOdd == Field(<<"$.a">>, [NoFilter EXCEPT !.enums = PyList(<<PyInt(1), PyInt(3)>>)])
\* $.a equal to 9: no credential
FieldNone == Field(<<"$.a">>, [NoFilter EXCEPT !._type = TypeNumber, !.const = PyInt(9)])
\* $.credentialSubject.b holds a "b": every credential but 1
FieldB == Field(<<"$.credentialSubject.b">>, [NoFilter EXCEPT !._type = TypeString, !.pattern = PyStr(<<"b">>)])
\* $.credentialSubject.b at least 2 long, negated: credential 1
FieldShort == Field(<<"$.credentialSubject.b">>,
                    [NoFilter EXCEPT !._type = TypeString, !.min_length = PyInt(2), !._not = PyBool(TRUE)])

FieldPalette == {FieldLow, FieldOdd, FieldNone, FieldB, FieldShort}

\* the fields filter_by_field is given: up to MaxLen paths, and a filter of
\* the palette or none
FieldInputs ==
    {Field(paths, f) :
        paths \in SeqsUpTo(Paths, MaxLen),
        f \in {PyNone} \cup {fld._filter : fld \in FieldPalette}}

Constraints(fields, limit_disclosure, subject_issuer) ==
    [_fields |-> fields, limit_disclosure |-> limit_disclosure, subject_issuer |-> subject_issuer]

ConstraintsPalette ==
    {Constraints(fields, ld, si) :
        fields \in SeqsUpTo(FieldPalette, MaxLen),
        ld \in {"", "required", "preferred"},
        si \in {"", "required"}}

SchemaVC == <<[uri |-> "VerifiableCredential", required |-> FALSE]>>

InputDescriptor(id, groups, schemas, constraint) ==
    [_id |-> id, groups |-> groups, schemas |-> schemas, constraint |-> constraint]

Groups == {<<"A">>, <<"B">>, <<"A", "B">>}

\* what an input descriptor asks for: schema and constraint
DescriptorBodies ==
    {[schemas |-> SchemaVC, constraint |-> Constraints(<<fld>>, "", "")] :
        fld \in {FieldLow, FieldOdd, FieldNone}}

\* the input_descriptors of a definition: at most two, with ids "1", "2"
DescriptorLists ==
    LET one(k) == {InputDescriptor(<<Digits[k + 1]>>, g, b.schemas, b.constraint) :
                      g \in Groups, b \in DescriptorBodies}
    IN  {<<>>} \cup {<<d>> : d \in one(1)} \cup {<<d, e>> : d \in one(1), e \in one(2)}

(***************************************************************************)
(* Submission requirements.                                                *)
(***************************************************************************)
MaxPick == 2

SubmissionRequirement(rule, count, minimum, maximum, _from, from_nested) ==
    [rule |-> rule, count |-> count, minimum |-> minimum, maximum |-> maximum,
     _from |-> _from, from_nested |-> from_nested]

\* rule and count of a submission requirement: all, or pick with a count
Rules == {[rule |-> "all", count |-> PyNone]} \cup
         {[rule |-> "pick", count |-> PyInt(c)] : c \in 1..MaxPick}

\* leaves: from a group; group C has no descriptor in any definition
LeafSRs ==
    {SubmissionRequirement(r.rule, r.count, PyNone, PyNone, g, <<>>) :
        r \in Rules, g \in {"A", "B", "C"}}

NestedSRs ==
    {SubmissionRequirement(r.rule, r.count, PyNone, PyNone, "", kids) :
        r \in Rules, kids \in {<<x>> : x \in LeafSRs} \cup {<<x, y>> : x \in LeafSRs, y \in LeafSRs}}

\* the submission_requirements of a definition: none, one or two leaves, or
\* one nested requirement
SRLists ==
    {<<>>} \cup {<<x>> : x \in LeafSRs \cup NestedSRs} \cup {<<x, y>> : x \in LeafSRs, y \in LeafSRs}

Definitions ==
    {[submission_requirements |-> srs, input_descriptors |-> ds] :
        srs \in SRLists, ds \in DescriptorLists}

\* the definitions of the interleaved runs: one submission requirement over
\* two descriptors, the first of group A, the second of groups A and B
RunDefinitions ==
    {[submission_requirements |-> <<sr>>,
      input_descriptors |->
          <<InputDescriptor(<<"1">>, <<"A">>, b1.schemas, b1.constraint),
            InputDescriptor(<<"2">>, <<"A", "B">>, b2.schemas, b2.constraint)>>] :
        sr \in LeafSRs \cup NestedSRs, b1 \in DescriptorBodies, b2 \in DescriptorBodies}

\* Ids one of which is a prefix of another.  The given_ids the credentials
\* of a pool may carry, and the ids of the two descriptors of a definition.
GivenIdPalette == {<<"1">>, <<"0", "1">>, <<"2">>, <<"0", "2">>}

DescriptorIdPairs == {<<(<<"1">>), (<<"1", "0">>)>>, <<(<<"1", "0">>), (<<"1">>)>>,
                      <<(<<"1">>), (<<"2">>)>>}

\* the three credentials of the store under distinct given_ids of the palette
PairPools ==
    {[k \in 1..3 |-> [CredOf(k) EXCEPT !.given_id = g[k]]] :
        g \in {h \in [1..3 -> GivenIdPalette] : h[1] # h[2] /\ h[1] # h[3] /\ h[2] # h[3]}}

\* one nested submission requirement over a leaf from group A and a leaf
\* from group B, each group with one descriptor
PairDefinitions ==
    {[submission_requirements |->
          <<SubmissionRequirement(r.rule, r.count, PyNone, PyNone, "",
                <<SubmissionRequirement(ra.rule, ra.count, PyNone, PyNone, "A", <<>>),
                  SubmissionRequirement(rb.rule, rb.count, PyNone, PyNone, "B", <<>>)>>)>>,
      input_descriptors |->
          <<InputDescriptor(ids[1], <<"A">>, b1.schemas, b1.constraint),
            InputDescriptor(ids[2], <<"B">>, b2.schemas, b2.constraint)>>] :
        r \in Rules, ra \in Rules, rb \in Rules, ids \in DescriptorIdPairs,
        b1 \in DescriptorBodies, b2 \in DescriptorBodies}

\* the dicts merge is given: at most two descriptor ids in any insertion
\* order, each with a list of credentials of the store
MergeIds == {<<"1">>, <<"1", "0">>, <<"2">>}

MergeLists == SeqsUpTo(SeqToSet(Store), MaxLen)

MergeInputs ==
    {<<>>} \cup {<<[key |-> k, val |-> l]>> : k \in MergeIds, l \in MergeLists}
        \cup {d \in {<<[key |-> k1, val |-> l1], [key |-> k2, val |-> l2]>> :
                        k1 \in MergeIds, k2 \in MergeIds, l1 \in MergeLists, l2 \in MergeLists} :
                 d[1].key # d[2].key}

FilterWith(f, c) == {[f EXCEPT ![c] = v] : v \in ConstraintValues(c)}

FilterBases ==
    {[NoFilter EXCEPT !._type = ty, !._not = nt, !.fmt = fm] :
        ty \in {PyNone, TypeNumber, TypeString},
        nt \in {PyNone, PyBool(FALSE), PyBool(TRUE)},
        fm \in {PyNone, FmtDate}}

\* filters with at most two constraints set
Filters ==
    UNION {UNION {FilterWith(g, c2) : g \in FilterWith(b, c1)} :
              b \in FilterBases, c1 \in ConstraintNames, c2 \in ConstraintNames}

\* the schema entries of an input descriptor: a type every credential has,
\* a type the odd credentials have, the schema id of credential 2, and a
\* uri no credential has; each required or not
SchemaUris == {"VerifiableCredential", "Passport", "schema:licence", "schema:none"}

SchemaEntries == {[uri |-> u, required |-> r] : u \in SchemaUris, r \in BOOLEAN}

SchemaLists == SeqsUpTo(SchemaEntries, MaxLen)

\* the calls of issue_credential on the exchange
MaxIssueCalls == 2

IssueCalls == 1..MaxIssueCalls

\* the record of the exchange when the calls begin: none, one with an offer
\* sent, one with the request received
StoredRecords ==
    {NoRecord,
     [state |-> STATE_OFFER_SENT, cred_request |-> FALSE, cred_issue |-> 0],
     [state |-> STATE_REQUEST_RECEIVED, cred_request |-> TRUE, cred_issue |-> 0]}

\* the inputs of merge_nested_results: up to MaxMaps maps with keys "1",
\* "2" in either order, lists over credentials 1 and 2 with repetitions,
\* and exclude dicts with keys descriptor_id + given_id
MaxMaps == 2

NestedLists ==
    {<<>>, <<CredOf(1)>>, <<CredOf(1), CredOf(2)>>, <<CredOf(2), CredOf(1), CredOf(2)>>}

NestedMaps ==
    {<<[key |-> k, val |-> l]>> : k \in {<<"1">>, <<"2">>}, l \in NestedLists}
        \cup {<<[key |-> ks[1], val |-> l1], [key |-> ks[2], val |-> l2]>> :
                 ks \in {<<(<<"1">>), (<<"2">>)>>, <<(<<"2">>), (<<"1">>)>>},
                 l1 \in {<<CredOf(1), CredOf(2)>>, <<CredOf(2)>>},
                 l2 \in {<<>>, <<CredOf(2), CredOf(1)>>}}

NestedResults == SeqsUpTo(NestedMaps, MaxMaps)

Excludes ==
    {{}, {<<"1", "1">>}, {<<"1", "2">>, <<"2", "1">>}, {<<"2", "2">>, <<"2", "1">>}}

\* the bounds a range check is given: none, a number, a date, a word
RangeBounds == {PyNone, PyInt(1), StrDate1, StrA}

\* filters for the range checks: a format or none, and the four bounds
RangeFilters ==
    {[NoFilter EXCEPT !.fmt = fm, !.exclusive_min = b1, !.exclusive_max = b2,
                      !.minimum = b3, !.maximum = b4] :
        fm \in {PyNone, FmtDate, FmtDateTime, StrA},
        b1 \in RangeBounds, b2 \in RangeBounds, b3 \in RangeBounds, b4 \in RangeBounds}

(***************************************************************************)
(* The state machines.  Each specification starts one operation on inputs  *)
(* drawn from the sets above and runs it; the variables of the other       *)
(* operations stay at their idle values.                                   *)
(***************************************************************************)
NoVp == [verifiableCredential |-> <<>>, descriptor_map |-> <<>>, proof |-> FALSE]

IdleFilter == to_check = PyNone /\ _filter = NoFilter /\ return_val = PyNone

IdleLen == len_req = NullRequirement /\ val = 0 /\ len_ok = FALSE

IdleConstraints == fc_constraints = Constraints(<<>>, "", "") /\ fc_filtered = <<>>

IdleVp ==
    /\ pd = [submission_requirements |-> <<>>, input_descriptors |-> <<>>]
    /\ requirement = NullRequirement
    /\ raised = ""
    /\ applicable_creds = <<>>
    /\ descriptor_maps = <<>>
    /\ vp = NoVp

filterVars == <<to_check, _filter, return_val>>
lenVars == <<len_req, val, len_ok>>
constraintVars == <<fc_constraints, fc_filtered>>

\* the operations run on their own
IdleSchema == fs_schemas = <<>> /\ fs_result = <<>>

IdleRuns == runs = <<>>

IdleNested == mn_nested_result = <<>> /\ mn_exclude = {} /\ mn_result = <<>>

IdleField == fbf_field = Field(<<>>, PyNone) /\ fbf_credential = CredOf(1) /\ fbf_result = FALSE

IdleIssue == cred_ex_stored = NoRecord /\ issue_calls = <<>> /\ request_call = IdleCall

IdleMore == IdleField /\ IdleIssue

IdleAux == IdleSchema /\ IdleRuns /\ IdleNested /\ IdleMore

schemaVars == <<fs_schemas, fs_result>>
runVars == <<runs>>
nestedVars == <<mn_nested_result, mn_exclude, mn_result>>
fieldVars == <<fbf_field, fbf_credential, fbf_result>>
issueVars == <<cred_ex_stored, issue_calls, request_call>>
moreVars == <<fieldVars, issueVars>>
auxVars == <<schemaVars, runVars, nestedVars, moreVars>>

(* validate_patch *)
InitFilter ==
    /\ phase = "filter_ready"
    /\ to_check \in Values
    /\ _filter \in Filters
    /\ return_val = PyNone
    /\ credentials = <<>> /\ vp_result = <<>>
    /\ IdleLen /\ IdleConstraints /\ IdleVp /\ IdleAux

\* filter_by_field's call validate_patch(match_item.value, field._filter)
ValidatePatch ==
    /\ phase = "filter_ready"
    /\ return_val' = validate_patch(to_check, _filter)
    /\ phase' = "filter_done"
    /\ UNCHANGED <<pd, credentials, requirement, raised, vp_result, applicable_creds,
                   descriptor_maps, vp, to_check, _filter, lenVars, constraintVars, auxVars>>

NextFilter == ValidatePatch

SpecFilter == InitFilter /\ [][NextFilter]_vars

(* the four range checks, each called on its own *)
InitRange ==
    /\ phase = "range_ready"
    /\ to_check \in Values
    /\ _filter \in RangeFilters
    /\ return_val = PyNone
    /\ credentials = <<>> /\ vp_result = <<>>
    /\ IdleLen /\ IdleConstraints /\ IdleVp /\ IdleAux

\* one range check runs: return_val is what it returns, raised the
\* exception that leaves it
RangeStep(name, bound, rel) ==
    /\ phase = "range_ready"
    /\ return_val' = RangeCheck(to_check, _filter, bound, rel)
    /\ raised' = RangeOutcome(to_check, _filter, bound, rel).exc
    /\ phase' = name
    /\ UNCHANGED <<pd, credentials, requirement, vp_result, applicable_creds,
                   descriptor_maps, vp, to_check, _filter, lenVars, constraintVars, auxVars>>

ExclusiveMinimumCheck ==
    /\ RangeStep("exclusive_minimum_check", _filter.exclusive_min, "gt")
    /\ return_val' = exclusive_minimum_check(to_check, _filter)

ExclusiveMaximumCheck ==
    /\ RangeStep("exclusive_maximum_check", _filter.exclusive_max, "lt")
    /\ return_val' = exclusive_maximum_check(to_check, _filter)

MaximumCheck ==
    /\ RangeStep("maximum_check", _filter.maximum, "le")
    /\ return_val' = maximum_check(to_check, _filter)

MinimumCheck ==
    /\ RangeStep("minimum_check", _filter.minimum, "ge")
    /\ return_val' = minimum_check(to_check, _filter)

NextRange ==
    \/ ExclusiveMinimumCheck
    \/ ExclusiveMaximumCheck
    \/ MaximumCheck
    \/ MinimumCheck

SpecRange == InitRange /\ [][NextRange]_vars

(* filter_schema *)
InitSchema ==
    /\ phase = "schema_ready"
    /\ credentials \in Pools
    /\ fs_schemas \in SchemaLists
    /\ fs_result = <<>>
    /\ vp_result = <<>>
    /\ IdleFilter /\ IdleLen /\ IdleConstraints /\ IdleVp /\ IdleRuns /\ IdleNested /\ IdleMore

FilterSchema ==
    /\ phase = "schema_ready"
    /\ fs_result' = filter_schema(credentials, fs_schemas)
    /\ phase' = "schema_done"
    /\ UNCHANGED <<pd, credentials, requirement, raised, vp_result, applicable_creds,
                   descriptor_maps, vp, fs_schemas, filterVars, lenVars, constraintVars,
                   runVars, nestedVars, moreVars>>

NextSchema == FilterSchema

SpecSchema == InitSchema /\ [][NextSchema]_vars

(* is_len_applicable *)
InitLen ==
    /\ phase = "len_ready"
    /\ len_req \in LenRequirements
    /\ val \in 0..MaxVal
    /\ len_ok = FALSE
    /\ credentials = <<>> /\ vp_result = <<>>
    /\ IdleFilter /\ IdleConstraints /\ IdleVp /\ IdleAux

IsLenApplicable ==
    /\ phase = "len_ready"
    /\ len_ok' = is_len_applicable(len_req, val)
    /\ phase' = "len_done"
    /\ UNCHANGED <<pd, credentials, requirement, raised, vp_result, applicable_creds,
                   descriptor_maps, vp, len_req, val, filterVars, constraintVars, auxVars>>

NextLen == IsLenApplicable

SpecLen == InitLen /\ [][NextLen]_vars

(* filter_constraints *)
InitConstraints ==
    /\ phase = "constraints_ready"
    /\ fc_constraints \in ConstraintsPalette
    /\ credentials \in Pools
    /\ fc_filtered = <<>>
    /\ vp_result = <<>>
    /\ IdleFilter /\ IdleLen /\ IdleVp /\ IdleAux

FilterConstraints ==
    /\ phase = "constraints_ready"
    /\ fc_filtered' = filter_constraints(fc_constraints, credentials)
    /\ phase' = "constraints_done"
    /\ UNCHANGED <<pd, credentials, requirement, raised, vp_result, applicable_creds,
                   descriptor_maps, vp, fc_constraints, filterVars, lenVars, auxVars>>

NextConstraints == FilterConstraints

SpecConstraints == InitConstraints /\ [][NextConstraints]_vars

(* filter_by_field on its own *)
InitField ==
    /\ phase = "field_ready"
    /\ fbf_field \in FieldInputs
    /\ fbf_credential \in SeqToSet(Store)
    /\ fbf_result = FALSE
    /\ credentials = <<>> /\ vp_result = <<>>
    /\ IdleFilter /\ IdleLen /\ IdleConstraints /\ IdleVp
    /\ IdleSchema /\ IdleRuns /\ IdleNested /\ IdleIssue

\* one call of filter_by_field: fbf_result is what it returns, raised the
\* exception that leaves it
FilterByField ==
    /\ phase = "field_ready"
    /\ LET out == FilterByFieldOutcome(fbf_field, fbf_credential)
       IN  /\ fbf_result' = out.ret
           /\ raised' = out.exc
    /\ phase' = "field_done"
    /\ UNCHANGED <<pd, credentials, requirement, vp_result, applicable_creds,
                   descriptor_maps, vp, fbf_field, fbf_credential, filterVars, lenVars,
                   constraintVars, schemaVars, runVars, nestedVars, issueVars>>

NextField == FilterByField

SpecField == InitField /\ [][NextField]_vars

(* create_vp: make_requirement, apply_requirements, merge,                 *)
(* create_presentation, sign_presentation                                  *)
InitVp ==
    /\ phase = "start"
    /\ pd \in Definitions
    /\ credentials = Store
    /\ requirement = NullRequirement
    /\ raised = ""
    /\ vp_result = <<>>
    /\ applicable_creds = <<>>
    /\ descriptor_maps = <<>>
    /\ vp = NoVp
    /\ IdleFilter /\ IdleLen /\ IdleConstraints /\ IdleAux

\* the call of make_requirement as it would be if create_vp caught its error
\* and went on with the requirement it has
MakeRequirement_goes_on ==
    /\ phase = "start"
    /\ LET made == make_requirement(pd.submission_requirements, pd.input_descriptors)
       IN  /\ requirement' = made.req
           /\ raised' = made.error
           /\ phase' = "built"
    /\ UNCHANGED <<pd, credentials, vp_result, applicable_creds, descriptor_maps, vp,
                   filterVars, lenVars, constraintVars, auxVars>>

MakeRequirement ==
    /\ phase = "start"
    /\ LET made == make_requirement(pd.submission_requirements, pd.input_descriptors)
       IN  /\ requirement' = made.req
           /\ raised' = made.error
           /\ phase' = IF made.error = "" THEN "built" ELSE "raised"
    /\ UNCHANGED <<pd, credentials, vp_result, applicable_creds, descriptor_maps, vp,
                   filterVars, lenVars, constraintVars, auxVars>>

ApplyRequirements ==
    /\ phase = "built"
    /\ vp_result' = apply_requirements(requirement, credentials)
    /\ phase' = "applied"
    /\ UNCHANGED <<pd, credentials, requirement, raised, applicable_creds, descriptor_maps,
                   vp, filterVars, lenVars, constraintVars, auxVars>>

Merge ==
    /\ phase = "applied"
    /\ LET merged == merge(vp_result)
       IN  /\ applicable_creds' = merged.result
           /\ descriptor_maps' = merged.descriptors
    /\ phase' = "merged"
    /\ UNCHANGED <<pd, credentials, requirement, raised, vp_result, vp,
                   filterVars, lenVars, constraintVars, auxVars>>

\* create_presentation(credentials=applicable_creds_list) and the
\* presentation_submission put into it
CreatePresentation ==
    /\ phase = "merged"
    /\ vp' = [verifiableCredential |->
                 [k \in 1..Len(applicable_creds) |-> applicable_creds[k].cred_value],
              descriptor_map |-> descriptor_maps,
              proof |-> FALSE]
    /\ phase' = "presented"
    /\ UNCHANGED <<pd, credentials, requirement, raised, vp_result, applicable_creds,
                   descriptor_maps, filterVars, lenVars, constraintVars, auxVars>>

SignPresentation ==
    /\ phase = "presented"
    /\ vp' = [vp EXCEPT !.proof = TRUE]
    /\ phase' = "signed"
    /\ UNCHANGED <<pd, credentials, requirement, raised, vp_result, applicable_creds,
                   descriptor_maps, filterVars, lenVars, constraintVars, auxVars>>

Next ==
    \/ MakeRequirement
    \/ ApplyRequirements
    \/ Merge
    \/ CreatePresentation
    \/ SignPresentation

Spec == InitVp /\ [][Next]_vars

(* apply_requirements on the requirement built from one submission         *)
(* requirement                                                             *)
InitApply ==
    /\ phase = "built"
    /\ pd \in {d \in Definitions :
                  /\ Len(d.submission_requirements) = 1
                  /\ to_requirement(d.submission_requirements[1], d.input_descriptors).error = ""}
    /\ requirement = to_requirement(pd.submission_requirements[1], pd.input_descriptors).req
    /\ credentials = Store
    /\ raised = ""
    /\ vp_result = <<>>
    /\ applicable_creds = <<>>
    /\ descriptor_maps = <<>>
    /\ vp = NoVp
    /\ IdleFilter /\ IdleLen /\ IdleConstraints /\ IdleAux

NextApply == ApplyRequirements

SpecApply == InitApply /\ [][NextApply]_vars

(* apply_requirements on a branch over two leaves, with descriptor ids and  *)
(* given_ids one of which may be a prefix of another                       *)
InitPairs ==
    /\ phase = "built"
    /\ pd \in PairDefinitions
    /\ requirement = to_requirement(pd.submission_requirements[1], pd.input_descriptors).req
    /\ credentials \in PairPools
    /\ raised = ""
    /\ vp_result = <<>>
    /\ applicable_creds = <<>>
    /\ descriptor_maps = <<>>
    /\ vp = NoVp
    /\ IdleFilter /\ IdleLen /\ IdleConstraints /\ IdleAux

NextPairs == ApplyRequirements

SpecPairs == InitPairs /\ [][NextPairs]_vars

(* two runs of apply_requirements on the same requirement and the same     *)
(* credential snapshot, their steps interleaved in any way                 *)
InitRuns ==
    /\ phase = "running"
    /\ pd \in RunDefinitions
    /\ to_requirement(pd.submission_requirements[1], pd.input_descriptors).error = ""
    /\ requirement = to_requirement(pd.submission_requirements[1], pd.input_descriptors).req
    /\ credentials = Store
    /\ runs = [r \in Runs |-> Frame(requirement)]
    /\ raised = ""
    /\ vp_result = <<>>
    /\ applicable_creds = <<>>
    /\ descriptor_maps = <<>>
    /\ vp = NoVp
    /\ IdleFilter /\ IdleLen /\ IdleConstraints /\ IdleSchema /\ IdleNested /\ IdleMore

runsUnchanged ==
    <<phase, pd, credentials, requirement, raised, vp_result, applicable_creds,
      descriptor_maps, vp, filterVars, lenVars, constraintVars, schemaVars, nestedVars,
      moreVars>>

RunDescriptor(r) ==
    /\ phase = "running"
    /\ runs[r].pc = "descriptors"
    /\ runs[r].i <= Len(requirement.input_descriptors)
    /\ \E creds \in CredentialOrders(credentials) :
            runs' = [runs EXCEPT ![r] = DescriptorPass(runs[r], requirement, creds)]
    /\ UNCHANGED runsUnchanged

RunNested(r) ==
    /\ phase = "running"
    /\ runs[r].pc = "nested"
    /\ runs[r].i <= Len(requirement.nested_req)
    /\ \E creds \in CredentialOrders(credentials) :
            runs' = [runs EXCEPT ![r] =
                        NestedPass(runs[r],
                                   apply_requirements(requirement.nested_req[runs[r].i], creds))]
    /\ UNCHANGED runsUnchanged

RunReturn(r) ==
    /\ phase = "running"
    /\ \/ runs[r].pc = "descriptors" /\ runs[r].i > Len(requirement.input_descriptors)
       \/ runs[r].pc = "nested" /\ runs[r].i > Len(requirement.nested_req)
    /\ runs' = [runs EXCEPT ![r] = ReturnPass(runs[r], requirement)]
    /\ UNCHANGED runsUnchanged

NextRuns ==
    \E r \in Runs :
        \/ RunDescriptor(r)
        \/ RunNested(r)
        \/ RunReturn(r)

SpecRuns == InitRuns /\ [][NextRuns]_vars

(* merge_nested_results on its own *)
InitNested ==
    /\ phase = "nested_ready"
    /\ mn_nested_result \in NestedResults
    /\ mn_exclude \in Excludes
    /\ mn_result = <<>>
    /\ credentials = <<>> /\ vp_result = <<>>
    /\ IdleFilter /\ IdleLen /\ IdleConstraints /\ IdleVp /\ IdleSchema /\ IdleRuns /\ IdleMore

MergeNestedResults ==
    /\ phase = "nested_ready"
    /\ mn_result' = merge_nested_results(mn_nested_result, mn_exclude)
    /\ phase' = "nested_done"
    /\ UNCHANGED <<pd, credentials, requirement, raised, vp_result, applicable_creds,
                   descriptor_maps, vp, mn_nested_result, mn_exclude, filterVars, lenVars,
                   constraintVars, schemaVars, runVars, moreVars>>

NextNested == MergeNestedResults

SpecNested == InitNested /\ [][NextNested]_vars

(* merge on its own *)
InitMerge ==
    /\ phase = "applied"
    /\ vp_result \in MergeInputs
    /\ credentials = Store
    /\ IdleFilter /\ IdleLen /\ IdleConstraints /\ IdleVp /\ IdleAux

NextMerge == Merge

SpecMerge == InitMerge /\ [][NextMerge]_vars

(* V20CredManager on one credential exchange: calls of issue_credential    *)
(* and of receive_request, their steps interleaved in any way.  Every      *)
(* await of a body ends a step.  The caller of issue_credential hands it   *)
(* the record as storage holds it when the call begins.                    *)
InitIssue ==
    /\ phase = "exchange"
    /\ cred_ex_stored \in StoredRecords
    /\ issue_calls = [c \in IssueCalls |-> IdleCall]
    /\ request_call = IdleCall
    /\ credentials = <<>> /\ vp_result = <<>>
    /\ IdleFilter /\ IdleLen /\ IdleConstraints /\ IdleVp
    /\ IdleSchema /\ IdleRuns /\ IdleNested /\ IdleField

issueUnchanged ==
    <<phase, pd, credentials, requirement, raised, vp_result, applicable_creds,
      descriptor_maps, vp, filterVars, lenVars, constraintVars, schemaVars, runVars,
      nestedVars, fieldVars>>

\* lines 416-447: the two tests, up to the first format handler awaited
IssueCheck(c) ==
    /\ issue_calls[c].pc = "idle"
    /\ cred_ex_stored # NoRecord
    /\ issue_calls' =
            [issue_calls EXCEPT ![c] =
                [pc |-> IF IssueGuard(cred_ex_stored) = "" THEN "formats" ELSE "raised",
                 cred_ex_record |-> cred_ex_stored]]
    /\ UNCHANGED <<cred_ex_stored, request_call, issueUnchanged>>

\* lines 442-460: the format handlers have issued; the message is made, the
\* record of the call updated, its save awaited
IssueFormats(c) ==
    /\ issue_calls[c].pc = "formats"
    /\ issue_calls' =
            [issue_calls EXCEPT ![c] =
                [pc |-> "save",
                 cred_ex_record |-> IssueUpdate(issue_calls[c].cred_ex_record, c)]]
    /\ UNCHANGED <<cred_ex_stored, request_call, issueUnchanged>>

\* lines 460-467: the record is saved and the call returns
IssueSave(c) ==
    /\ issue_calls[c].pc = "save"
    /\ cred_ex_stored' = issue_calls[c].cred_ex_record
    /\ issue_calls' = [issue_calls EXCEPT ![c].pc = "returned"]
    /\ UNCHANGED <<request_call, issueUnchanged>>

\* lines 367-389: the record is retrieved, or made when there is none; the
\* format handlers are awaited
RequestRetrieve ==
    /\ request_call.pc = "idle"
    /\ request_call' =
            [pc |-> "handlers",
             cred_ex_record |-> IF cred_ex_stored = NoRecord THEN V20CredExRecord
                                ELSE cred_ex_stored]
    /\ UNCHANGED <<cred_ex_stored, issue_calls, issueUnchanged>>

\* lines 391-396: the request is recorded, the record saved, the call
\* returns; the holder may send its request again
RequestSave ==
    /\ request_call.pc = "handlers"
    /\ cred_ex_stored' = RequestUpdate(request_call.cred_ex_record)
    /\ request_call' = IdleCall
    /\ UNCHANGED <<issue_calls, issueUnchanged>>

NextIssue ==
    \/ \E c \in IssueCalls :
            \/ IssueCheck(c)
            \/ IssueFormats(c)
            \/ IssueSave(c)
    \/ RequestRetrieve
    \/ RequestSave

SpecIssue == InitIssue /\ [][NextIssue]_vars

(***************************************************************************)
(* C1: every InputDescriptorMapping merge returns carries the index of the *)
(* position, in the credential list merge returns, of the credential it    *)
(* was created for.  merge makes one mapping per listed credential, in     *)
(* list order, and the final sort is stable: the k-th mapping of a         *)
(* descriptor is the one made for the k-th credential of its list.         *)
(***************************************************************************)
C1_MappingsOf(desc_id) == SelectSeq(descriptor_maps, LAMBDA m : m._id = desc_id)

C1_IndexIsPosition ==
    phase = "merged" =>
        \A e \in SeqToSet(vp_result) :
            \A k \in 1..Len(e.val) :
                LET m == C1_MappingsOf(e.key)[k]
                IN  /\ m.path \in 0..(Len(applicable_creds) - 1)
                    /\ applicable_creds[m.path + 1].given_id = e.val[k].given_id

(***************************************************************************)
(* C2: the credential list merge returns never holds two entries with the  *)
(* same given_id.                                                          *)
(***************************************************************************)
C2_NoDuplicateGivenId ==
    phase = "merged" =>
        \A i, j \in 1..Len(applicable_creds) :
            applicable_creds[i].given_id = applicable_creds[j].given_id => i = j

\* one credential listed under two descriptors, and a second credential
C2_Witness ==
    /\ phase = "merged"
    /\ Len(vp_result) = 2
    /\ \E c \in SeqToSet(vp_result[1].val) : c \in SeqToSet(vp_result[2].val)
    /\ Len(applicable_creds) = 2

(***************************************************************************)
(* C3: make_requirement fails with PresentationExchError and returns no    *)
(* Requirement whenever a submission requirement, at any depth, names a    *)
(* `from` group no input descriptor belongs to.                            *)
(***************************************************************************)
RECURSIVE C3_NamesEmptyGroup(_, _)
C3_NamesEmptyGroup(sr, descriptors) ==
    IF sr._from # ""
    THEN ~ \E k \in 1..Len(descriptors) : sr._from \in SeqToSet(descriptors[k].groups)
    ELSE \E k \in 1..Len(sr.from_nested) : C3_NamesEmptyGroup(sr.from_nested[k], descriptors)

C3_EmptyGroupFails ==
    (phase # "start" /\
     \E k \in 1..Len(pd.submission_requirements) :
         C3_NamesEmptyGroup(pd.submission_requirements[k], pd.input_descriptors))
        => /\ phase = "raised"
           /\ raised = "PresentationExchError"
           /\ requirement = NullRequirement

\* a nested requirement whose first leaf has descriptors and whose second
\* has none: the whole build fails
C3_Witness ==
    /\ phase = "raised"
    /\ Len(pd.submission_requirements) = 1
    /\ LET sr == pd.submission_requirements[1]
       IN  /\ Len(sr.from_nested) = 2
           /\ ~C3_NamesEmptyGroup(sr.from_nested[1], pd.input_descriptors)
           /\ C3_NamesEmptyGroup(sr.from_nested[2], pd.input_descriptors)

(***************************************************************************)
(* C4: with submission requirements, the map apply_requirements returns    *)
(* for the synthetic root holds credentials only if the evaluation of      *)
(* every top-level submission requirement returned a non-empty map.        *)
(***************************************************************************)
C4_HoldsCredentials(d) == \E e \in SeqToSet(d) : e.val # <<>>

C4_AllTopLevelResolve ==
    (phase = "applied" /\ Len(pd.submission_requirements) > 0 /\ C4_HoldsCredentials(vp_result))
        => \A k \in 1..Len(requirement.nested_req) :
               apply_requirements(requirement.nested_req[k], credentials) # <<>>

(***************************************************************************)
(* C5: without submission requirements make_requirement returns one leaf   *)
(* holding every descriptor with count their number, and                   *)
(* apply_requirements on it returns a map keyed by exactly all descriptor  *)
(* ids when every descriptor has a credential passing its schema and       *)
(* constraints, and the empty map as soon as one descriptor has none.      *)
(***************************************************************************)
C5_Passing(descriptor) ==
    filter_constraints(descriptor.constraint, filter_schema(credentials, descriptor.schemas))

C5_AllDescriptorsMandatory ==
    (Len(pd.submission_requirements) = 0 /\ phase \in {"built", "applied"})
        => /\ requirement.input_descriptors = pd.input_descriptors
           /\ requirement.nested_req = <<>>
           /\ requirement.count = PyInt(Len(pd.input_descriptors))
           /\ phase = "applied" =>
                IF \A k \in 1..Len(pd.input_descriptors) : C5_Passing(pd.input_descriptors[k]) # <<>>
                THEN /\ DictKeys(vp_result) = [k \in 1..Len(pd.input_descriptors) |->
                                                 pd.input_descriptors[k]._id]
                     /\ \A k \in 1..Len(vp_result) :
                            vp_result[k].val = C5_Passing(pd.input_descriptors[k])
                ELSE vp_result = <<>>

\* two descriptors, the first with credentials and the second with none:
\* the empty map
C5_Witness ==
    /\ phase = "applied"
    /\ Len(pd.submission_requirements) = 0
    /\ Len(pd.input_descriptors) = 2
    /\ C5_Passing(pd.input_descriptors[1]) # <<>>
    /\ C5_Passing(pd.input_descriptors[2]) = <<>>
    /\ vp_result = <<>>

(***************************************************************************)
(* C6: when the evaluation yields no credential, create_vp raises nothing  *)
(* and returns a presentation with an empty verifiableCredential array and *)
(* an empty descriptor map, whether apply_requirements returned the empty  *)
(* map or every credential was excluded at the root.                       *)
(***************************************************************************)
C6_EmptyPresentation ==
    (phase \in {"merged", "presented", "signed"} /\ ~C4_HoldsCredentials(vp_result))
        => /\ raised = ""
           /\ applicable_creds = <<>>
           /\ descriptor_maps = <<>>
           /\ phase \in {"presented", "signed"} =>
                (vp.verifiableCredential = <<>> /\ vp.descriptor_map = <<>>)

\* every credential was excluded at the root: the map has a key and no
\* credential, and the presentation is signed
C6_Witness ==
    /\ phase = "signed"
    /\ vp_result # <<>>
    /\ ~C4_HoldsCredentials(vp_result)
    /\ vp.proof
    /\ vp.verifiableCredential = <<>>

(***************************************************************************)
(* C8: a branch with rule pick and count 1, of whose nested requirements   *)
(* exactly one is satisfied, returns exactly the satisfied requirement's   *)
(* map.                                                                    *)
(***************************************************************************)
C8_NestedResults ==
    [k \in 1..Len(requirement.nested_req) |->
        apply_requirements(requirement.nested_req[k], credentials)]

C8_PickOneReturnsTheSatisfied ==
    (/\ phase = "applied"
     /\ pd.submission_requirements[1]._from = ""
     /\ pd.submission_requirements[1].rule = "pick"
     /\ pd.submission_requirements[1].count = PyInt(1)
     /\ Cardinality({k \in 1..Len(C8_NestedResults) : C8_NestedResults[k] # <<>>}) = 1)
        => \E k \in 1..Len(C8_NestedResults) :
               C8_NestedResults[k] # <<>> /\ vp_result = C8_NestedResults[k]

(***************************************************************************)
(* C9: the reveal document names, besides @context, type, id and           *)
(* issuanceDate, only the paths of fields that matched the credential (the *)
(* path was found and its value passed the field's filter); a field whose  *)
(* path exists in the credential but whose filter failed contributes no    *)
(* path.  (The claim also excludes the paths of fields that were never     *)
(* evaluated; the formula allows them when their filter would pass, so     *)
(* what violates it violates the claim.)                                   *)
(***************************************************************************)
C9_Source(credential) ==
    CHOOSE c \in SeqToSet(credentials) : c.given_id = credential.given_id

C9_MatchedPaths(cons, credential) ==
    UNION {UNION {{m.full_path : m \in {x \in SeqToSet(Find(pth, credential)) :
                                           Truthy(validate_patch(x.value, fld._filter))}} :
                  pth \in SeqToSet(fld.paths)} :
           fld \in SeqToSet(cons._fields)}

C9_RevealOnlyMatched ==
    phase = "constraints_done" =>
        \A c \in SeqToSet(fc_filtered) :
            c.reveal.explicit =>
                \A key \in c.reveal.unflatten :
                    key[Len(key)] # "@explicit" =>
                        key \in C9_MatchedPaths(fc_constraints, C9_Source(c))

(***************************************************************************)
(* C7: is_len_applicable(req, n) is false exactly when count > 0 and       *)
(* n # count, or minimum > 0 and n < minimum, or maximum > 0 and           *)
(* n > maximum; a bound that is absent or 0 constrains nothing.            *)
(***************************************************************************)
C7_BoundOf(v) == IF v.t = "none" THEN 0 ELSE v.n

C7_LenApplicableExact ==
    phase = "len_done" =>
        (len_ok <=>
            ~ \/ (C7_BoundOf(len_req.count) > 0 /\ val # C7_BoundOf(len_req.count))
              \/ (C7_BoundOf(len_req.minimum) > 0 /\ val < C7_BoundOf(len_req.minimum))
              \/ (C7_BoundOf(len_req.maximum) > 0 /\ val > C7_BoundOf(len_req.maximum)))

\* all three bounds set and the check passes; and a check that a bound of 0
\* leaves to the other bounds
C7_Witness ==
    /\ phase = "len_done"
    /\ len_req.count = PyInt(2) /\ len_req.minimum = PyInt(1) /\ len_req.maximum = PyInt(3)
    /\ val = 2
    /\ len_ok

(***************************************************************************)
(* C10: validate_patch with `not` set returns the logical negation of what *)
(* the same filter without `not` returns, for every filter and value.      *)
(***************************************************************************)
C10_NotNegates ==
    (phase = "filter_done" /\ Truthy(_filter._not)) =>
        (Truthy(return_val) <=>
            ~Truthy(validate_patch(to_check, [_filter EXCEPT !._not = PyNone])))

\* an untyped enum filter with `not`, on a value of the enum: the negated
\* result is False
C10_Witness ==
    /\ phase = "filter_done"
    /\ Truthy(_filter._not)
    /\ _filter._type = PyNone
    /\ Truthy(_filter.enums)
    /\ ~Truthy(_filter.const)
    /\ to_check = StrAB
    /\ return_val = PyBool(FALSE)

(***************************************************************************)
(* C11: each of the four range checks returns False and raises nothing     *)
(* whenever the value and the bound cannot be compared: without a format,  *)
(* a value that is no number against a numeric bound (or a number against  *)
(* a bound that is none); under a date format, a value or a bound the      *)
(* date parser rejects.                                                    *)
(***************************************************************************)
C11_RangePhases ==
    {"exclusive_minimum_check", "exclusive_maximum_check", "maximum_check", "minimum_check"}

C11_Bound ==
    CASE phase = "exclusive_minimum_check" -> _filter.exclusive_min
      [] phase = "exclusive_maximum_check" -> _filter.exclusive_max
      [] phase = "maximum_check" -> _filter.maximum
      [] OTHER -> _filter.minimum

C11_Incomparable ==
    IF ~Truthy(_filter.fmt)
    THEN IsNum(to_check) # IsNum(C11_Bound)
    ELSE /\ _filter.fmt \in {FmtDate, FmtDateTime}
         /\ \/ ~dateutil_parser(C11_Bound).ok
            \/ ~dateutil_parser(PyStr(Str(to_check))).ok

C11_RangeChecksNeverRaise ==
    (phase \in C11_RangePhases /\ C11_Incomparable) =>
        (raised = "" /\ return_val = PyBool(FALSE))

\* minimum_check under the date format with a date as bound, on a value
\* that is no date
C11_Witness ==
    /\ phase = "minimum_check"
    /\ _filter.fmt = FmtDate
    /\ _filter.minimum = StrDate1
    /\ to_check = StrA
    /\ return_val = PyBool(FALSE)
    /\ raised = ""

(***************************************************************************)
(* C12: filter_schema never returns a credential that fails a schema entry *)
(* marked required: every credential of the output matches, by schema id   *)
(* or by expanded type, the uri of every required entry of the list,       *)
(* wherever the entry stands.                                              *)
(***************************************************************************)
C12_RequiredSchemasHold ==
    phase = "schema_done" =>
        \A c \in SeqToSet(fs_result) :
            \A i \in 1..Len(fs_schemas) :
                fs_schemas[i].required => credential_match_schema(c, fs_schemas[i].uri)

(***************************************************************************)
(* C13: filter_constraints returns, in input order, exactly the            *)
(* credentials that pass the subject-is-issuer check when it is required   *)
(* (some non-empty subject id equals the issuer id) and match at least one *)
(* field of the constraints: one field of several is enough, and a         *)
(* credential matching no field is dropped.                                *)
(***************************************************************************)
C13_FieldMatches(fld, credential) ==
    \E pth \in SeqToSet(fld.paths) :
        \E m \in SeqToSet(Find(pth, credential)) :
            Truthy(validate_patch(m.value, fld._filter))

C13_Passes(credential) ==
    /\ fc_constraints.subject_issuer = "required" =>
            \E sid \in credential.subject_ids : sid # "" /\ sid = credential.issuer_id
    /\ \E fld \in SeqToSet(fc_constraints._fields) : C13_FieldMatches(fld, credential)

C13_Ids(creds) == [k \in 1..Len(creds) |-> creds[k].given_id]

C13_ExactlyThePassing ==
    phase = "constraints_done" =>
        C13_Ids(fc_filtered) = C13_Ids(SelectSeq(credentials, C13_Passes))

\* two fields, subject-is-issuer required: credential 1 is kept on one
\* field of the two, the others are dropped
C13_Witness ==
    /\ phase = "constraints_done"
    /\ Len(credentials) = MaxCreds
    /\ fc_constraints.subject_issuer = "required"
    /\ Len(fc_constraints._fields) = 2
    /\ \E c \in SeqToSet(credentials) :
            /\ c.given_id \in SeqToSet(C13_Ids(fc_filtered))
            /\ \E f \in SeqToSet(fc_constraints._fields) : ~C13_FieldMatches(f, c)
    /\ Len(fc_filtered) < Len(credentials)

C15_Reorderings(d) ==
    {[k \in 1..Len(d) |-> d[p[k]]] :
        p \in {q \in [1..Len(d) -> 1..Len(d)] :
                  \A j \in 1..Len(d) : \E k \in 1..Len(d) : q[k] = j}}

C15_InsertionOrderIrrelevant ==
    phase = "merged" =>
        /\ \A d \in C15_Reorderings(vp_result) :
                merge(d) = [result |-> applicable_creds, descriptors |-> descriptor_maps]
        /\ \A k \in 1..(Len(descriptor_maps) - 1) :
                ~StrLess(descriptor_maps[k + 1]._id, descriptor_maps[k]._id)

\* a dict whose keys were inserted against their sorted order, both with
\* credentials, the lists differing
C15_Witness ==
    /\ phase = "merged"
    /\ Len(vp_result) = 2
    /\ StrLess(vp_result[2].key, vp_result[1].key)
    /\ vp_result[1].val # <<>>
    /\ vp_result[2].val # <<>>
    /\ vp_result[1].val[1].given_id # vp_result[2].val[1].given_id
    /\ applicable_creds[1] = vp_result[2].val[1]

(***************************************************************************)
(* C16: is_len_applicable is monotonic: when it passes for n, with         *)
(* minimum <= n <= maximum, it fails for a larger n' only if count is set  *)
(* and n' differs from count.  As stated, for any larger n'                *)
(* (C16_Monotonic); as amended, for any larger n' that is still at most    *)
(* maximum (C16_MonotonicUpToMaximum).  A bound that is None, 0 or         *)
(* negative bounds nothing.                                                *)
(***************************************************************************)
C16_InRange(req, n) ==
    /\ (req.minimum # PyNone /\ req.minimum.n > 0) => req.minimum.n <= n
    /\ (req.maximum # PyNone /\ req.maximum.n > 0) => n <= req.maximum.n

C16_FailsOnlyByCount(req, n) ==
    ~is_len_applicable(req, n) => (req.count # PyNone /\ n # req.count.n)

C16_Monotonic ==
    (phase = "len_done" /\ len_ok /\ C16_InRange(len_req, val)) =>
        \A n \in (val + 1)..(MaxVal + 1) : C16_FailsOnlyByCount(len_req, n)

C16_MonotonicUpToMaximum ==
    (phase = "len_done" /\ len_ok /\ C16_InRange(len_req, val)) =>
        \A n \in (val + 1)..(MaxVal + 1) :
            C16_InRange(len_req, n) => C16_FailsOnlyByCount(len_req, n)

\* a pass on n = count below the maximum: n + 1 is within the maximum and
\* fails, by the count
C16_Witness ==
    /\ phase = "len_done"
    /\ len_ok
    /\ len_req.count = PyInt(val)
    /\ len_req.minimum = PyInt(1)
    /\ len_req.maximum = PyInt(val + 1)
    /\ val >= 1
    /\ ~is_len_applicable(len_req, val + 1)

(***************************************************************************)
(* C17: the Requirement tree make_requirement builds mirrors the           *)
(* submission-requirement tree node for node: the root has one child per   *)
(* submission requirement, in the same order; a leaf's input_descriptors   *)
(* are the descriptors whose groups contain its `from` name, in definition *)
(* order; a node has input descriptors or nested requirements, never both; *)
(* a node's count is the number of its descriptors or children when its    *)
(* rule is `all` and the submission requirement's count otherwise.         *)
(***************************************************************************)
C17_InGroup(descriptors, name) ==
    SelectSeq(descriptors, LAMBDA d : \E k \in 1..Len(d.groups) : d.groups[k] = name)

C17_CountOf(req, sr, total) ==
    IF sr.rule = "all" THEN req.count = PyInt(total) ELSE req.count = sr.count

RECURSIVE C17_Mirrors(_, _, _)
C17_Mirrors(req, sr, descriptors) ==
    /\ ~(req.input_descriptors # <<>> /\ req.nested_req # <<>>)
    /\ IF sr._from # ""
       THEN /\ req.input_descriptors = C17_InGroup(descriptors, sr._from)
            /\ req.nested_req = <<>>
            /\ C17_CountOf(req, sr, Len(req.input_descriptors))
       ELSE /\ req.input_descriptors = <<>>
            /\ Len(req.nested_req) = Len(sr.from_nested)
            /\ C17_CountOf(req, sr, Len(req.nested_req))
            /\ \A k \in 1..Len(sr.from_nested) :
                    C17_Mirrors(req.nested_req[k], sr.from_nested[k], descriptors)

C17_TreeMirrors ==
    (phase = "built" /\ pd.submission_requirements # <<>>) =>
        /\ Len(requirement.nested_req) = Len(pd.submission_requirements)
        /\ \A k \in 1..Len(pd.submission_requirements) :
                C17_Mirrors(requirement.nested_req[k], pd.submission_requirements[k],
                            pd.input_descriptors)

\* a nested pick over two different leaves, one of them with rule all over
\* a group of two descriptors
C17_Witness ==
    /\ phase = "built"
    /\ Len(pd.submission_requirements) = 1
    /\ pd.submission_requirements[1].rule = "pick"
    /\ Len(pd.submission_requirements[1].from_nested) = 2
    /\ pd.submission_requirements[1].from_nested[1].rule = "all"
    /\ pd.submission_requirements[1].from_nested[1]._from = "A"
    /\ pd.submission_requirements[1].from_nested[2]._from = "B"
    /\ Len(requirement.nested_req[1].nested_req[1].input_descriptors) = 2
    /\ requirement.nested_req[1].nested_req[1].count = PyInt(2)
    /\ Len(requirement.nested_req[1].nested_req[2].input_descriptors) = 1

(***************************************************************************)
(* C18: after apply_requirements on a branch requirement, every given_id   *)
(* present in the returned map was returned by the nested evaluations      *)
(* under a number n of distinct descriptor ids for which                   *)
(* is_len_applicable(branch, n) passes; a given_id whose n fails is absent *)
(* from every list of the returned map.                                    *)
(***************************************************************************)
C18_NestedMaps ==
    {apply_requirements(requirement.nested_req[k], credentials) :
        k \in 1..Len(requirement.nested_req)}

\* the descriptor ids under which the nested evaluations returned given_id
C18_DescriptorsOf(given_id) ==
    {e.key : e \in {x \in UNION {SeqToSet(m) : m \in C18_NestedMaps} :
                       \E c \in SeqToSet(x.val) : c.given_id = given_id}}

C18_Listed(map) ==
    UNION {{c.given_id : c \in SeqToSet(e.val)} : e \in SeqToSet(map)}

C18_IsBranch ==
    phase = "applied" /\ requirement.input_descriptors = <<>>

C18_OnlyApplicableGivenIds ==
    C18_IsBranch =>
        \A g \in C18_Listed(vp_result) :
            is_len_applicable(requirement, Cardinality(C18_DescriptorsOf(g)))

\* a branch whose nested evaluation returned one credential under two
\* descriptors and others under one, with a count of 1: the first is left
\* out, the others are returned
C18_Witness ==
    /\ C18_IsBranch
    /\ \E g \in UNION {C18_Listed(m) : m \in C18_NestedMaps} :
            /\ Cardinality(C18_DescriptorsOf(g)) = 2
            /\ ~is_len_applicable(requirement, 2)
            /\ g \notin C18_Listed(vp_result)
    /\ \E g \in C18_Listed(vp_result) : Cardinality(C18_DescriptorsOf(g)) = 1

(***************************************************************************)
(* C19: apply_requirements on a leaf requirement returns the empty map     *)
(* when the number of its descriptors with at least one credential passing *)
(* the schema filter and then the constraint filter fails                  *)
(* is_len_applicable (so a pick with count k over fewer than k descriptors *)
(* is never satisfied); otherwise it returns a map whose keys are exactly  *)
(* those descriptors and whose values are their filtered lists.            *)
(***************************************************************************)
C19_Filtered(descriptor) ==
    filter_constraints(descriptor.constraint, filter_schema(credentials, descriptor.schemas))

C19_WithResults ==
    SelectSeq(requirement.input_descriptors, LAMBDA d : C19_Filtered(d) # <<>>)

C19_IsLeaf ==
    phase = "applied" /\ requirement.input_descriptors # <<>>

C19_LeafAllOrNothing ==
    C19_IsLeaf =>
        /\ IF is_len_applicable(requirement, Len(C19_WithResults))
           THEN vp_result = [k \in 1..Len(C19_WithResults) |->
                                [key |-> C19_WithResults[k]._id,
                                 val |-> C19_Filtered(C19_WithResults[k])]]
           ELSE vp_result = <<>>
        /\ (requirement.count.t = "int"
                /\ requirement.count.n > Len(requirement.input_descriptors)) =>
                    vp_result = <<>>

\* a pick of 2 over a group of one descriptor, which has credentials
C19_Witness ==
    /\ C19_IsLeaf
    /\ pd.submission_requirements[1].rule = "pick"
    /\ requirement.count = PyInt(2)
    /\ Len(requirement.input_descriptors) = 1
    /\ Len(C19_WithResults) = 1
    /\ vp_result = <<>>

(***************************************************************************)
(* C20: merge_nested_results returns, for each descriptor id occurring in  *)
(* any input map, the credentials listed under that id across the maps in  *)
(* the given order, each given_id kept once at its first occurrence, and   *)
(* every (descriptor id, given_id) of exclude, which holds a pair under    *)
(* the key descriptor_id + given_id, left out; with an empty exclude no    *)
(* credential is lost.                                                     *)
(***************************************************************************)
C20_Ids == UNION {{e.key : e \in SeqToSet(m)} : m \in SeqToSet(mn_nested_result)}

\* the credentials listed under id in the maps from map k on
RECURSIVE C20_ListedFrom(_, _)
C20_ListedFrom(id, k) ==
    IF k > Len(mn_nested_result) THEN <<>>
    ELSE LET under == SelectSeq(mn_nested_result[k], LAMBDA e : e.key = id)
         IN  (IF under = <<>> THEN <<>> ELSE under[1].val) \o C20_ListedFrom(id, k + 1)

\* creds with every credential whose given_id occurred before it left out
C20_FirstOccurrences(creds) ==
    LET first(k) == \A j \in 1..(k - 1) : creds[j].given_id # creds[k].given_id
        RECURSIVE from(_)
        from(k) == IF k > Len(creds) THEN <<>>
                   ELSE (IF first(k) THEN <<creds[k]>> ELSE <<>>) \o from(k + 1)
    IN  from(1)

C20_Expected(id) ==
    C20_FirstOccurrences(
        SelectSeq(C20_ListedFrom(id, 1), LAMBDA c : (id \o c.given_id) \notin mn_exclude))

C20_MergedInOrder ==
    phase = "nested_done" =>
        /\ {e.key : e \in SeqToSet(mn_result)} = C20_Ids
        /\ \A k \in 1..Len(mn_result) : mn_result[k].val = C20_Expected(mn_result[k].key)
        /\ \A j \in 1..Len(mn_result), k \in 1..Len(mn_result) :
                mn_result[j].key = mn_result[k].key => j = k
        /\ mn_exclude = {} =>
                \A k \in 1..Len(mn_result) :
                    {c.given_id : c \in SeqToSet(C20_ListedFrom(mn_result[k].key, 1))}
                        = {c.given_id : c \in SeqToSet(mn_result[k].val)}

\* two maps listing credentials under the same id, the second repeating a
\* credential of the first, and an excluded pair that is listed
C20_Witness ==
    /\ phase = "nested_done"
    /\ Len(mn_nested_result) = 2
    /\ mn_exclude = {<<"1", "1">>}
    /\ C20_ListedFrom(<<"1">>, 1) = <<CredOf(1), CredOf(2), CredOf(2), CredOf(1), CredOf(2)>>
    /\ \E k \in 1..Len(mn_result) :
            mn_result[k].key = <<"1">> /\ mn_result[k].val = <<CredOf(2)>>

(***************************************************************************)
(* C21: in every run of create_vp the phases occur in the order build the  *)
(* requirement, apply it to the credentials, merge, create the             *)
(* presentation, sign it, each phase writing its own results only; when    *)
(* make_requirement raises, the run ends there: nothing is filtered,       *)
(* nothing is merged, no presentation is created or signed.                *)
(***************************************************************************)
C21_Order ==
    {<<"start", "built">>, <<"start", "raised">>, <<"built", "applied">>,
     <<"applied", "merged">>, <<"merged", "presented">>, <<"presented", "signed">>}

\* what a step into a phase may write
C21_Writes ==
    CASE phase' \in {"built", "raised"} ->
            UNCHANGED <<vp_result, applicable_creds, descriptor_maps, vp>>
      [] phase' = "applied" ->
            UNCHANGED <<requirement, applicable_creds, descriptor_maps, vp>>
      [] phase' = "merged" ->
            UNCHANGED <<requirement, vp_result, vp>>
      [] phase' = "presented" ->
            /\ UNCHANGED <<requirement, vp_result, applicable_creds, descriptor_maps>>
            /\ ~vp'.proof
      [] phase' = "signed" ->
            /\ UNCHANGED <<requirement, vp_result, applicable_creds, descriptor_maps>>
            /\ vp'.proof
            /\ vp'.verifiableCredential = vp.verifiableCredential
            /\ vp'.descriptor_map = vp.descriptor_map
      [] OTHER -> FALSE

C21_Step ==
    /\ <<phase, phase'>> \in C21_Order
    /\ raised = ""
    /\ raised' # "" <=> phase' = "raised"
    /\ C21_Writes
    /\ raised' # "" =>
            /\ vp_result' = <<>>
            /\ applicable_creds' = <<>>
            /\ descriptor_maps' = <<>>
            /\ vp' = NoVp

C21_PhasesInOrder == [][C21_Step]_vars

\* a run that went through every phase and signed a presentation with
\* credentials in it
C21_Witness ==
    /\ phase = "signed"
    /\ raised = ""
    /\ vp.proof
    /\ vp.verifiableCredential # <<>>
    /\ vp_result # <<>>

(***************************************************************************)
(* C22: for a filter of type number without `not`, validate_patch returns  *)
(* false for every value that is neither an int nor a float, whichever     *)
(* constraint is the active one, const and enum included.                  *)
(***************************************************************************)
C22_NumberRejectsNonNumeric ==
    (/\ phase = "filter_done"
     /\ _filter._type = TypeNumber
     /\ ~Truthy(_filter._not)
     /\ ~is_numeric(to_check))
        => return_val = PyBool(FALSE)

(***************************************************************************)
(* C23: for a filter of type string (without `not`) the result is that of  *)
(* exactly one check, the first active one in the order length, pattern,   *)
(* enum, exclusive maximum, exclusive minimum, minimum, maximum, const; a  *)
(* range check is active only when the filter has a format as well, so a   *)
(* range bound without a format leaves the decision to the checks after    *)
(* it; with no active check the result is false.  Results are compared by  *)
(* their truth value.                                                      *)
(***************************************************************************)
C23_FirstActive(v, f) ==
    IF Truthy(f.min_length) \/ Truthy(f.max_length) THEN length_check(v, f)
    ELSE IF Truthy(f.pattern) THEN pattern_check(v, f)
    ELSE IF Truthy(f.enums) THEN enum_check(v, f)
    ELSE IF Truthy(f.exclusive_max) /\ Truthy(f.fmt) THEN exclusive_maximum_check(v, f)
    ELSE IF Truthy(f.exclusive_min) /\ Truthy(f.fmt) THEN exclusive_minimum_check(v, f)
    ELSE IF Truthy(f.minimum) /\ Truthy(f.fmt) THEN minimum_check(v, f)
    ELSE IF Truthy(f.maximum) /\ Truthy(f.fmt) THEN maximum_check(v, f)
    ELSE IF Truthy(f.const) THEN const_check(v, f)
    ELSE PyBool(FALSE)

C23_StringPriority ==
    (/\ phase = "filter_done"
     /\ _filter._type = TypeString
     /\ ~Truthy(_filter._not))
        => Truthy(return_val) = Truthy(C23_FirstActive(to_check, _filter))

(***************************************************************************)
(* C24: for a filter with no type (and without `not`) the enum check comes *)
(* before the const check: when enum is set the result is the membership   *)
(* of the value in enum, also when const is set too; when only const is    *)
(* set the result is the equality with const; when neither is set the      *)
(* value yields no match.                                                  *)
(***************************************************************************)
C24_EnumThenConst(v, f) ==
    IF Truthy(f.enums) THEN PyIn(v, f.enums)
    ELSE IF Truthy(f.const) THEN PyEq(v, f.const)
    ELSE FALSE

C24_UntypedEnumFirst ==
    (/\ phase = "filter_done"
     /\ ~Truthy(_filter._type)
     /\ ~Truthy(_filter._not))
        => Truthy(return_val) = C24_EnumThenConst(to_check, _filter)

(***************************************************************************)
(* C25: filter_by_field on a field that has no filter returns true for a   *)
(* credential when at least one of the field's paths yields one or more    *)
(* matches and false when no path yields a match, and raises no error in   *)
(* either case.                                                            *)
(***************************************************************************)
C25_AnyMatch ==
    \E i \in 1..Len(fbf_field.paths) : Len(Find(fbf_field.paths[i], fbf_credential)) > 0

C25_NoFilterPassesOnMatch ==
    (phase = "field_done" /\ fbf_field._filter = PyNone)
        => /\ raised = ""
           /\ fbf_result = C25_AnyMatch

(***************************************************************************)
(* C26: every credential listed under a descriptor id d in the map that    *)
(* apply_requirements returns, for the requirement of create_vp and for    *)
(* every requirement nested in it, is a credential of the pool, or the     *)
(* disclosure-limited copy of one, as the schema filter and then the       *)
(* constraint filter of descriptor d return it: merging and exclusion move *)
(* no credential under a descriptor it did not satisfy and add none.       *)
(***************************************************************************)
C26_Passing(descriptor) ==
    SeqToSet(filter_constraints(descriptor.constraint,
                                filter_schema(credentials, descriptor.schemas)))

\* req and the requirements nested in it, at any depth
RECURSIVE C26_Tree(_)
C26_Tree(req) ==
    {req} \cup UNION {C26_Tree(req.nested_req[k]) : k \in 1..Len(req.nested_req)}

C26_Sound(map) ==
    \A k \in 1..Len(map) :
        \E d \in SeqToSet(pd.input_descriptors) :
            /\ d._id = map[k].key
            /\ SeqToSet(map[k].val) \subseteq C26_Passing(d)

C26_OnlyPassingCredentials ==
    phase = "applied" =>
        /\ C26_Sound(vp_result)
        /\ \A req \in C26_Tree(requirement) : C26_Sound(apply_requirements(req, credentials))

\* a requirement tree three deep whose branch merged the maps of two
\* leaves: two descriptors are returned, the first with a credential the
\* second does not accept
C26_Witness ==
    /\ phase = "applied"
    /\ Len(requirement.nested_req) = 1
    /\ Len(requirement.nested_req[1].nested_req) = 2
    /\ Len(vp_result) = 2
    /\ \E c \in SeqToSet(vp_result[1].val) :
            /\ c \notin SeqToSet(vp_result[2].val)
            /\ \E d \in SeqToSet(pd.input_descriptors) :
                    d._id = vp_result[2].key /\ c \notin C26_Passing(d)

(***************************************************************************)
(* C27: every descriptor id that is a key of the map apply_requirements    *)
(* returns, for a leaf or for a branch, maps to a non-empty credential     *)
(* list; a descriptor all of whose credentials were excluded by the        *)
(* branch's cardinality rule is not a key of the result.                   *)
(***************************************************************************)
C27_NoEmptyList ==
    phase = "applied" =>
        \A k \in 1..Len(vp_result) : vp_result[k].val # <<>>

(***************************************************************************)
(* C28: in a branch evaluation a credential is removed from a descriptor's *)
(* list only when that exact (descriptor id, given_id) pair was excluded:  *)
(* excluding one pair never removes a different pair, whatever the ids,    *)
(* ids one of which is a prefix of another included.  A pair is excluded   *)
(* when the nested evaluations returned its given_id under a number of     *)
(* descriptors that fails is_len_applicable and its descriptor is one of   *)
(* them.                                                                   *)
(***************************************************************************)
C28_NestedResult ==
    SelectSeq([k \in 1..Len(requirement.nested_req) |->
                  apply_requirements(requirement.nested_req[k], credentials)],
              LAMBDA r : r # <<>>)

\* the (descriptor id, given_id) pairs the nested evaluations returned
C28_ListedPairs ==
    UNION {UNION {{<<e.key, c.given_id>> : c \in SeqToSet(e.val)} : e \in SeqToSet(m)} :
              m \in SeqToSet(C28_NestedResult)}

C28_ExcludedPairs ==
    {pr \in C28_ListedPairs :
        ~is_len_applicable(requirement,
                           Cardinality(GivenIdDescriptors(C28_NestedResult, pr[2])))}

\* the pairs of the returned map
C28_ReturnedPairs ==
    UNION {{<<e.key, c.given_id>> : c \in SeqToSet(e.val)} : e \in SeqToSet(vp_result)}

C28_OnlyExcludedPairsRemoved ==
    (phase = "applied" /\ requirement.input_descriptors = <<>>)
        => \A pr \in C28_ListedPairs \ C28_ReturnedPairs : pr \in C28_ExcludedPairs

(***************************************************************************)
(* C29: a constraint whose value is 0 is honoured like any other value: a  *)
(* number filter (no format, no `not`) whose only constraint is minimum m, *)
(* maximum m, an exclusive bound m or const m accepts exactly the numeric  *)
(* values satisfying it, for every number m, 0 included.                   *)
(***************************************************************************)
C29_Constraints == {"minimum", "maximum", "exclusive_min", "exclusive_max", "const"}

\* c is the only constraint of f, and a number
C29_Only(f, c) ==
    /\ f[c].t \in {"int", "float"}
    /\ \A o \in ConstraintNames \ {c} : f[o] = PyNone

C29_Satisfies(v, c, m) ==
    /\ is_numeric(v)
    /\ CASE c = "minimum" -> v.n >= m.n
         [] c = "maximum" -> v.n <= m.n
         [] c = "exclusive_min" -> v.n > m.n
         [] c = "exclusive_max" -> v.n < m.n
         [] OTHER -> v.n = m.n

C29_ZeroHonoured ==
    (/\ phase = "filter_done"
     /\ _filter._type = TypeNumber
     /\ _filter.fmt = PyNone
     /\ ~Truthy(_filter._not))
        => \A c \in C29_Constraints :
                C29_Only(_filter, c)
                    => Truthy(return_val) = C29_Satisfies(to_check, c, _filter[c])

(***************************************************************************)
(* C30: for one credential exchange, issue_credential completes            *)
(* successfully at most once over any sequence or interleaving of manager  *)
(* calls on that exchange: of the calls made for the exchange, sequential  *)
(* or concurrent, no two return a credential issue message.                *)
(***************************************************************************)
C30_Issued == {c \in IssueCalls : issue_calls[c].pc = "returned"}

C30_IssuesAtMostOnce ==
    phase = "exchange" => Cardinality(C30_Issued) <= 1

=============================================================================
